---- MODULE Spec2Model ----
(***************************************************************************)
(* Model of latch_eval_tools' evaluation servers:                          *)
(*   - HeadlessEvalServer / run_eval_batch_headless                        *)
(*       (src/src/latch_eval_tools/headless_eval_server.py)                *)
(*   - EvalServer / run_eval_batch                                         *)
(*       (src/src/latch_eval_tools/eval_server.py)                         *)
(* One batch is run in one of the two modes, chosen in Init.               *)
(***************************************************************************)
EXTENDS Integers, Sequences, FiniteSets, TLC

(* ---------------------------- bounds ----------------------------------- *)
NumCases == 2      \* eval cases in the batch
MaxFrames == 4     \* frames the agent emits in answer to one headless query
MaxServerFrames == 1  \* frames and records the agent emits per console-attached query
MaxAnswerFrames == 2  \* frames and records the agent emits for the first query of an overlapping batch
MaxQueue == 2      \* frames in flight on the agent channel
MaxBlocks == 1     \* blocks of one streamed message addressed by deltas
MaxPredHist == 2   \* messages of a history given to the completion predicate
MaxPredBlocks == 2 \* blocks of one such message
MaxConns == 2      \* observer connections made during one batch
MaxRecFrames == 5  \* frames given to the recorder within one case
MaxNum == 4        \* largest numerator of an error or tolerance given to score_with_tolerance
MaxDen == 2        \* largest denominator of such a value
MaxActions == 2    \* agent_action requests the agent sends within one case
MaxPolls == 2      \* polls of /readyz before wait_for_ready gives up
MaxResults == 3    \* results handed to write_results

VARIABLES
  mode,                       \* "headless" | "server"
  pc,                         \* position of the batch runner / run_eval
  caseIdx,                    \* 1-based index of the case being run
  cur_grader,                 \* grader kind declared by the current case
  results,                    \* list[EvalResult] of the batch
  server_proc,                \* agent process: "none","running","exited","stopped","killed"
  websocket,                  \* headless: agent socket; server: console socket
  chan,                       \* frames in flight, agent -> harness
  quota,                      \* frames the agent may still emit for this query
  outbox,                     \* frames the harness has sent to the agent
  eval_complete,
  conversation_history,
  current_streaming_message,
  current_streaming_blocks,
  trajectory,
  turn_number,
  current_usage,
  db,                         \* authoritative history store (server mode)
  clear_pending,              \* agent_clear_history not yet processed by the agent
  fwd,                        \* forward_agent_to_console task
  rcv,                        \* forward_console_to_agent task
  exited_at,                  \* pc at which the agent process exited on its own
  completions,                \* completion detections of the current case
  last,                       \* last frame taken off the agent channel
  conn,                       \* number of the observer connection held in self.websocket
  reconn,                     \* the observer reconnected during the current case
  fwd_msg,                    \* frame held by forward_agent_to_console (its local msg)
  rcv_conn,                   \* observer connection forward_console_to_agent iterates
  rcv_sock,                   \* state of that connection
  unsent,                     \* frames received from the agent and not sent on, oldest first
  sent_in_order,              \* every frame sent to the observer was the oldest unsent one
  g_in,                       \* arguments of the grader function under evaluation
  g_out,                      \* what it returned
  requested,                  \* agent_action requests the agent has sent, in order
  agent_ready,                \* the agent has reported ready
  server_responded,           \* wait_for_ready saw a 500 from /readyz
  polls,                      \* iterations of the wait_for_ready loop so far
  cooperative,                \* the agent process exits when asked to terminate
  proc_handle,                \* self.server_proc / self.agent_proc: "set" or None
  signals,                    \* signals sent to the agent process, in order
  interrupted,                \* the batch was cancelled (interrupt)
  aliased,                    \* finalized message whose content is the list self.current_streaming_blocks
  stream_log                  \* ghost: stream frames handled for the message in progress and the last finalized one

hvars == <<conversation_history, current_streaming_message,
           current_streaming_blocks, trajectory, turn_number, current_usage, aliased>>

svars == <<db, clear_pending, fwd, rcv, exited_at>>

rvars == <<conn, reconn, fwd_msg, rcv_conn, rcv_sock, unsent, sent_in_order>>

gvars == <<g_in, g_out>>

lvars == <<requested, agent_ready, server_responded, polls, cooperative,
           proc_handle, signals, interrupted, stream_log>>

vars == <<db, clear_pending, fwd, rcv, exited_at, mode, pc, caseIdx, cur_grader,
          results, server_proc, websocket, chan,
          quota, outbox, eval_complete, conversation_history,
          current_streaming_message, current_streaming_blocks, trajectory,
          turn_number, current_usage, completions, last,
          conn, reconn, fwd_msg, rcv_conn, rcv_sock, unsent, sent_in_order,
          g_in, g_out,
          requested, agent_ready, server_responded, polls, cooperative,
          proc_handle, signals, interrupted, aliased, stream_log>>

(* ---------------------------- values ----------------------------------- *)
None == "None"

\* parsed tool input: {} is EmptyInput
EmptyInput == [next_status |-> "absent", answer |-> "none"]

\* chunks of streamed tool-input JSON text
FullChunk == "{\"next_status\":\"done\",\"summary\":\"<EVAL_ANSWER>{\\\"answer\\\":\\\"B\\\"}</EVAL_ANSWER>\"}"

\* json.loads of the accumulated raw input; ok = FALSE is JSONDecodeError
json_loads(raw) ==
  IF raw = <<FullChunk>>
  THEN [ok |-> TRUE, value |-> [next_status |-> "done", answer |-> "B"]]
  ELSE [ok |-> FALSE, value |-> EmptyInput]

\* a content block: text and thinking blocks carry no name and no id
NewBlock(btype, bname, bid) ==
  [type |-> btype, name |-> bname, id |-> bid, text |-> <<>>, raw |-> <<>>,
   input |-> EmptyInput]

DoneBlock == [type |-> "tool_use", name |-> "submit_response", id |-> "toolu_0",
              text |-> <<>>, raw |-> <<>>,
              input |-> [next_status |-> "done", answer |-> "none"]]
DoneAnsBlock == [DoneBlock EXCEPT !.input = [next_status |-> "done", answer |-> "B"]]
WaitBlock == [DoneBlock EXCEPT !.input = [next_status |-> "awaiting_user_response", answer |-> "none"]]
OtherToolBlock == [DoneBlock EXCEPT !.name = "create_cell"]

\* no finalized message shares its content list with the accumulator
NoAlias == [hist |-> 0, traj |-> 0]

\* ghost: block-start and delta frames handled since the accumulator list was
\* created (open), and those of the last finalized message (closed)
NoStreamLog == [open |-> <<>>, closed |-> <<>>, finalized |-> 0]

Msg(mtype, role, content) == [type |-> mtype, role |-> role, content |-> content]
NoMessage == Msg(None, None, <<>>)

\* frames the agent can put on the channel
Frame(t) == [type |-> t, block_type |-> None, block_name |-> None, block_id |-> None,
             block_index |-> 0, delta |-> None, payload |-> NoMessage,
             inner_type |-> None, cell_id |-> None,
             action |-> None, tx_id |-> 0, well_formed |-> TRUE, has_exception |-> FALSE]
\* {"type": "agent_action", "action": action, "tx_id": tx_id, "params": {...}};
\* a run_cell request names the cell to run in its params
AgentAction(action, tx_id) ==
  [Frame("agent_action") EXCEPT !.action = action, !.tx_id = tx_id,
                                !.cell_id = IF action = "run_cell" THEN "cell_1" ELSE None]
\* a frame whose text is not valid JSON
Malformed == [Frame(None) EXCEPT !.well_formed = FALSE]
BlockStart(btype, bname, bid) ==
  [Frame("agent_stream_block_start") EXCEPT !.block_type = btype, !.block_name = bname,
                                            !.block_id = bid]
\* {"type": "kernel_message", "message": {"type": inner, "cell_id": cell}}
KernelMessage(inner, cell, has_exception) ==
  [Frame("kernel_message") EXCEPT !.inner_type = inner, !.cell_id = cell,
                                  !.has_exception = has_exception]
Delta(i, c) == [Frame("agent_stream_delta") EXCEPT !.block_index = i, !.delta = c]
Direct(m) == [Frame(m.type) EXCEPT !.payload = m]

\* frames the agent emits in a headless batch
HeadlessFrames ==
  { Frame(t) : t \in {"agent_history_updated", "agent_stream_start",
                      "agent_stream_complete", "agent_usage_update",
                      "agent_error"} }
  \cup { BlockStart("tool_use", "submit_response", "toolu_1") }
  \cup { Delta(i, FullChunk) : i \in 0..(MaxBlocks - 1) }
  \cup { Direct(Msg("anthropic_message", "assistant", <<DoneBlock>>)),
         Direct(Msg("anthropic_message", "user", <<DoneBlock>>)) }

GraderKinds == {"none", "multiple_choice", "unknown_kind"}

\* no grader function is under evaluation
NoCall == [kind |-> None]

(* ------------------- completion predicate (pure) ----------------------- *)
RECURSIVE ScanBlocks(_)
ScanBlocks(content) ==
  IF content = <<>> THEN FALSE
  ELSE LET block == Head(content) IN
       IF block.type = "tool_use" /\ block.name = "submit_response"
          /\ block.input.next_status = "done"
       THEN TRUE
       ELSE ScanBlocks(Tail(content))

PayloadMatchesAnyRole(payload) == payload.type = "anthropic_message"

PayloadMatches(payload) ==
  payload.type = "anthropic_message" /\ payload.role = "assistant"

RECURSIVE check_for_completion(_)
check_for_completion(history) ==
  IF history = <<>> THEN FALSE
  ELSE LET payload == Head(history) IN
       IF PayloadMatches(payload) /\ ScanBlocks(payload.content)
       THEN TRUE
       ELSE check_for_completion(Tail(history))

(* ------------------- answer extraction --------------------------------- *)
RECURSIVE LastAnswerInBlocks(_)
LastAnswerInBlocks(content) ==
  IF content = <<>> THEN None
  ELSE LET b == content[Len(content)] IN
       IF b.type = "tool_use" /\ b.input.answer # "none" THEN b.input.answer
       ELSE LastAnswerInBlocks(SubSeq(content, 1, Len(content) - 1))

RECURSIVE extract_answer_from_conversation(_)
extract_answer_from_conversation(history) ==
  IF history = <<>> THEN None
  ELSE LET m == history[Len(history)]
           a == IF m.type = "anthropic_message" /\ m.role = "assistant"
                THEN LastAnswerInBlocks(m.content) ELSE None
       IN IF a # None THEN a
          ELSE extract_answer_from_conversation(SubSeq(history, 1, Len(history) - 1))

(* ------------------- grading branch of run_eval ------------------------ *)
\* MultipleChoiceGrader.evaluate_answer with config {"correct_answer": "B"}
multiple_choice_passed(agent_answer) == agent_answer = "B"

GraderRegisteredAnyKind(kind) == TRUE

\* grader_type in GRADER_REGISTRY
GraderRegistered(kind) == kind \in {"multiple_choice"}

\* the grader_result dict that run_eval stores in the EvalResult
NoGraderResult == [is_set |-> FALSE]
GraderResultDict(passed, metrics, reasoning, agent_answer) ==
  [is_set |-> TRUE, passed |-> passed, metrics |-> metrics,
   reasoning |-> reasoning, agent_answer |-> agent_answer]

gradeWithoutShortCircuit(kind, agent_answer) ==
  IF GraderRegistered(kind)
  THEN [grader_result |->
          GraderResultDict(multiple_choice_passed(agent_answer),
            "{correct_answers, agent_answer, score}",
            IF multiple_choice_passed(agent_answer)
            THEN "Multiple Choice: PASS" ELSE "Multiple Choice: FAIL",
            agent_answer),
        invoked |-> TRUE]
  ELSE [grader_result |-> NoGraderResult, invoked |-> FALSE]

\* returns the dict and whether grader.evaluate was called
grade(kind, agent_answer) ==
  IF kind = "none" THEN [grader_result |-> NoGraderResult, invoked |-> FALSE]
  ELSE IF agent_answer = None
       THEN [grader_result |->
               GraderResultDict(FALSE, "{}",
                 "Failed to extract answer from conversation history", None),
             invoked |-> FALSE]
       ELSE IF GraderRegistered(kind)
            THEN [grader_result |->
                    GraderResultDict(multiple_choice_passed(agent_answer),
                      "{correct_answers, agent_answer, score}",
                      IF multiple_choice_passed(agent_answer)
                      THEN "Multiple Choice: PASS" ELSE "Multiple Choice: FAIL",
                      agent_answer),
                  invoked |-> TRUE]
            ELSE [grader_result |-> NoGraderResult, invoked |-> FALSE]

(* ------------------- recorder ------------------------------------------ *)
InitEntry(eval_id) ==
  [type |-> "system", eval_id |-> eval_id, content |-> <<>>, turn |-> 0, usage |-> None,
   tool_use_id |-> None, cell_id |-> None, is_error |-> FALSE]

AssistantEntry(message, turn, usage) ==
  [type |-> "assistant", eval_id |-> 0, content |-> message.content,
   turn |-> turn, usage |-> usage, tool_use_id |-> None, cell_id |-> None,
   is_error |-> FALSE]

\* the entry add_tool_result_to_trajectory appends
ToolResultEntry(tool_use_id, cell_id, is_error) ==
  [type |-> "user", eval_id |-> 0, content |-> <<>>, turn |-> 0, usage |-> None,
   tool_use_id |-> tool_use_id, cell_id |-> cell_id, is_error |-> is_error]

\* id of the first create_cell tool_use block of a message content, or None
RECURSIVE FirstCreateCellId(_)
FirstCreateCellId(content) ==
  IF content = <<>> THEN None
  ELSE LET block == Head(content) IN
       IF block.type = "tool_use" /\ block.name = "create_cell" THEN block.id
       ELSE FirstCreateCellId(Tail(content))

\* scans the trajectory backwards; the cell_id argument is not consulted
RECURSIVE find_last_tool_use_id_for_cell(_, _)
find_last_tool_use_id_for_cell(traj, cell_id) ==
  IF traj = <<>> THEN None
  ELSE LET entry == traj[Len(traj)]
           hasCreate == /\ entry.type = "assistant"
                        /\ \E i \in 1..Len(entry.content) :
                              /\ entry.content[i].type = "tool_use"
                              /\ entry.content[i].name = "create_cell"
       IN IF hasCreate THEN FirstCreateCellId(entry.content)
          ELSE find_last_tool_use_id_for_cell(SubSeq(traj, 1, Len(traj) - 1), cell_id)

\* finalisation of one streamed block at agent_stream_complete
FinalizeBlock(block) ==
  IF block.type = "tool_use" /\ block.raw # <<>>
  THEN LET parsed == json_loads(block.raw) IN
       [block EXCEPT !.raw = <<>>,
                     !.input = IF parsed.ok THEN parsed.value ELSE EmptyInput]
  ELSE block

ApplyDeltaPrepends(block, delta) ==
  IF block.type \in {"text", "thinking"} THEN [block EXCEPT !.text = <<delta>> \o @]
  ELSE IF block.type = "tool_use" THEN [block EXCEPT !.raw = <<delta>> \o @]
  ELSE block

\* block["text"] += delta / block["thinking"] += delta /
\* block["input_raw"] = block.get("input_raw", "") + delta
ApplyDelta(block, delta) ==
  IF block.type \in {"text", "thinking"} THEN [block EXCEPT !.text = Append(@, delta)]
  ELSE IF block.type = "tool_use" THEN [block EXCEPT !.raw = Append(@, delta)]
  ELSE block

InProgressAlways(message) == TRUE

\* if self.current_streaming_message is not None
InProgress(message) == message # NoMessage

list_appendFront(list, item) == <<item>> \o list

\* self.conversation_history.append(...) / self.trajectory.append(...)
list_append(list, item) == Append(list, item)

\* a write into the list self.current_streaming_blocks refers to: every
\* holder of that list object sees it
WriteBlocks(blocks) ==
  /\ current_streaming_blocks' = blocks
  /\ conversation_history' =
       IF aliased.hist \in 1..Len(conversation_history)
       THEN [conversation_history EXCEPT ![aliased.hist].content = blocks]
       ELSE conversation_history
  /\ trajectory' =
       IF aliased.traj \in 1..Len(trajectory)
       THEN [trajectory EXCEPT ![aliased.traj].content = blocks]
       ELSE trajectory

reset_streaming_blocksInPlace(blocks, hist, traj) ==
  [blocks |-> blocks, aliased |-> [hist |-> hist, traj |-> traj]]

\* self.current_streaming_blocks = [] after a message is finalized: a new list
\* object, so the list the finalized message holds has no other holder
reset_streaming_blocks(blocks, hist, traj) == [blocks |-> <<>>, aliased |-> NoAlias]

add_to_history(msg) ==
  LET msg_type == msg.type IN
  IF msg_type \in {"anthropic_message", "user_message"} THEN
       /\ conversation_history' = list_append(conversation_history, msg.payload)
       /\ UNCHANGED <<current_streaming_message, current_streaming_blocks,
                      trajectory, turn_number, current_usage, aliased>>
  ELSE IF msg_type = "agent_stream_start" THEN
       /\ current_streaming_message' = Msg("anthropic_message", "assistant", <<>>)
       /\ current_streaming_blocks' = <<>>
       /\ aliased' = NoAlias
       /\ UNCHANGED <<conversation_history, trajectory, turn_number, current_usage>>
  ELSE IF msg_type = "agent_stream_block_start" THEN
       /\ WriteBlocks(
            IF msg.block_type \in {"text", "thinking"}
            THEN Append(current_streaming_blocks, NewBlock(msg.block_type, None, None))
            ELSE IF msg.block_type = "tool_use"
            THEN Append(current_streaming_blocks,
                        NewBlock("tool_use", msg.block_name, msg.block_id))
            ELSE current_streaming_blocks)
       /\ UNCHANGED <<current_streaming_message, turn_number, current_usage, aliased>>
  ELSE IF msg_type = "agent_stream_delta" THEN
       /\ WriteBlocks(
            IF msg.block_index < Len(current_streaming_blocks)
            THEN [current_streaming_blocks EXCEPT
                    ![msg.block_index + 1] = ApplyDelta(@, msg.delta)]
            ELSE current_streaming_blocks)
       /\ UNCHANGED <<current_streaming_message, turn_number, current_usage, aliased>>
  ELSE IF msg_type = "agent_usage_update" THEN
       /\ current_usage' = "usage"
       /\ UNCHANGED <<conversation_history, current_streaming_message,
                      current_streaming_blocks, trajectory, turn_number, aliased>>
  ELSE IF msg_type = "agent_stream_complete" /\ InProgress(current_streaming_message) THEN
       LET blocks == [i \in 1..Len(current_streaming_blocks) |->
                        FinalizeBlock(current_streaming_blocks[i])]
           message == [current_streaming_message EXCEPT !.content = blocks]
           reset == reset_streaming_blocks(blocks, Len(conversation_history) + 1,
                                           Len(trajectory) + 1)
       IN /\ conversation_history' = list_append(conversation_history, message)
          /\ turn_number' = turn_number + 1
          /\ trajectory' = list_append(trajectory,
                                       AssistantEntry(message, turn_number + 1, current_usage))
          /\ current_usage' = None
          /\ current_streaming_message' = NoMessage
          /\ current_streaming_blocks' = reset.blocks
          /\ aliased' = reset.aliased
  ELSE IF msg_type = "kernel_message" /\ msg.inner_type = "cell_result" THEN
       LET tool_use_id == find_last_tool_use_id_for_cell(trajectory, msg.cell_id) IN
       /\ trajectory' = IF tool_use_id # None
                        THEN list_append(trajectory, ToolResultEntry(tool_use_id, msg.cell_id,
                                                                     msg.has_exception))
                        ELSE trajectory
       /\ UNCHANGED <<conversation_history, current_streaming_message,
                      current_streaming_blocks, turn_number, current_usage, aliased>>
  ELSE UNCHANGED hvars

\* ghost: the last frame taken off the agent channel, whether the case was
\* awaiting completion then, and whether the completion predicate was evaluated
LastFrame(t, awaiting, checked) == [type |-> t, awaiting |-> awaiting, checked |-> checked]
NoFrameYet == LastFrame(None, FALSE, FALSE)

(* ------------------- initial state ------------------------------------- *)
\* no process has been started and nothing has been asked of the stub
ProcessNotStarted ==
  /\ requested = <<>>
  /\ agent_ready = FALSE
  /\ server_responded = FALSE
  /\ polls = 0
  /\ cooperative = TRUE
  /\ proc_handle = None
  /\ signals = <<>>
  /\ interrupted = FALSE
  /\ stream_log = NoStreamLog

Init ==
  /\ mode \in {"headless", "server"}
  /\ db = <<>>
  /\ clear_pending = FALSE
  /\ fwd = "none"
  /\ rcv = "none"
  /\ exited_at = None
  /\ pc = "start"
  /\ caseIdx = 1
  /\ cur_grader = "none"
  /\ results = <<>>
  /\ server_proc = "none"
  /\ websocket = None
  /\ chan = <<>>
  /\ quota = 0
  /\ outbox = <<>>
  /\ eval_complete = FALSE
  /\ conversation_history = <<>>
  /\ current_streaming_message = NoMessage
  /\ current_streaming_blocks = <<>>
  /\ trajectory = <<>>
  /\ turn_number = 0
  /\ current_usage = None
  /\ aliased = NoAlias
  /\ completions = 0
  /\ last = NoFrameYet
  /\ conn = 1
  /\ reconn = FALSE
  /\ fwd_msg = None
  /\ rcv_conn = 1
  /\ rcv_sock = None
  /\ unsent = <<>>
  /\ sent_in_order = TRUE
  /\ ProcessNotStarted
  /\ g_in = NoCall
  /\ g_out = NoCall

\* frames the agent emits in a console-attached batch
ServerFrames == { Frame(t) : t \in {"agent_history_updated", "agent_stream_complete"} }

\* records the agent writes to the authoritative history store
ServerRecords ==
  { Msg("anthropic_message", "assistant", <<DoneAnsBlock>>),
    Msg("anthropic_message", "user", <<DoneBlock>>) }

(* ------------------- the agent (environment) ---------------------------- *)
\* the agent puts a frame on the channel
AgentEmit ==
  /\ server_proc = "running"
  /\ mode = "headless" => websocket = "open"
  /\ ~clear_pending
  /\ quota > 0
  /\ Len(chan) < MaxQueue
  /\ \E f \in (IF mode = "headless" THEN HeadlessFrames ELSE ServerFrames) :
        chan' = Append(chan, f)
  /\ quota' = quota - 1
  /\ UNCHANGED <<mode, lvars, gvars, rvars, svars, pc, caseIdx, cur_grader, results, server_proc, websocket,
                 outbox, eval_complete, hvars, completions, last>>

\* the agent process exits on its own; its end of the channel closes
AgentExit ==
  /\ server_proc = "running"
  /\ pc \notin {"start", "aborted"}
  /\ server_proc' = "exited"
  /\ exited_at' = pc
  /\ websocket' = IF mode = "headless" /\ websocket = "open" THEN "closed" ELSE websocket
  /\ UNCHANGED <<mode, lvars, gvars, rvars, db, clear_pending, fwd, rcv, pc, caseIdx, cur_grader, results,
                 chan, quota, outbox, eval_complete, hvars, completions, last>>

(* ------------------- headless batch: run_eval_batch_headless ----------- *)
NextPc(i) == IF i > NumCases THEN "done" ELSE "clear"

\* a request id "<prefix>-<n>"
RequestId(prefix, n) == [prefix |-> prefix, n |-> n]
NoRequestId == RequestId(None, 0)

\* frames the harness sends to the agent; query is the task of the case
OutFrame(t) ==
  [type |-> t, request_id |-> NoRequestId, query |-> 0, tx_id |-> 0, status |-> None]
AgentQuery(case, request_id) ==
  [OutFrame("agent_query") EXCEPT !.query = case, !.request_id = request_id]

\* self.session_id, assigned once by initialize_agent_session
SessionIds == {1}
session_id == CHOOSE id \in SessionIds : TRUE

\* f"eval-{eval_case.id}-{uuid.uuid4()}": n stands for the pair of the case
\* id and a uuid4 that no earlier call returned
HeadlessRequestId(case) == RequestId("eval", case)

\* f"eval-init-{self.session_id}"
ServerRequestId == RequestId("eval-init", session_id)

\* start_server() and connect(): ready, or an exception that ends the batch
HStart ==
  /\ mode = "headless"
  /\ pc = "start"
  /\ server_proc' = "running"
  /\ \/ /\ websocket' = "open"
        /\ outbox' = Append(outbox, OutFrame("init"))
        /\ pc' = NextPc(caseIdx)
     \/ /\ pc' = "aborted"
        /\ UNCHANGED <<websocket, outbox>>
  /\ UNCHANGED <<mode, lvars, gvars, rvars, svars, caseIdx, cur_grader, results, chan, quota, eval_complete,
                 hvars, completions, last>>

clear_history == conversation_history' = <<>>

\* clear_agent_history(): websocket.send raises when the socket is None or closed
clear_agent_history ==
  /\ mode = "headless"
  /\ pc = "clear"
  /\ clear_history
  /\ IF websocket = "open"
     THEN /\ outbox' = Append(outbox, OutFrame("agent_clear_history"))
          /\ pc' = "run"
     ELSE /\ pc' = "raised"
          /\ UNCHANGED outbox
  /\ UNCHANGED <<mode, lvars, gvars, rvars, svars, caseIdx, cur_grader, results, server_proc, websocket, chan,
                 quota, eval_complete, current_streaming_message,
                 current_streaming_blocks, trajectory, turn_number, current_usage, aliased,
                 completions, last>>

init_trajectoryKeepsTurn(eval_id) ==
  /\ trajectory' = <<InitEntry(eval_id)>>
  /\ turn_number' = turn_number

init_trajectory(eval_id) ==
  /\ trajectory' = <<InitEntry(eval_id)>>
  /\ turn_number' = 0

\* run_eval up to the dispatch of agent_query
HRunEval ==
  /\ mode = "headless"
  /\ pc = "run"
  /\ eval_complete' = FALSE
  /\ init_trajectory(caseIdx)
  /\ \E g \in GraderKinds : cur_grader' = g
  /\ completions' = 0
  /\ last' = NoFrameYet
  /\ IF websocket = "open"
     THEN /\ outbox' = Append(outbox, AgentQuery(caseIdx, HeadlessRequestId(caseIdx)))
          /\ quota' = MaxFrames
          /\ pc' = "awaiting"
     ELSE /\ pc' = "raised"
          /\ UNCHANGED <<outbox, quota>>
  /\ UNCHANGED <<mode, lvars, gvars, rvars, svars, caseIdx, results, server_proc, websocket, chan,
                 conversation_history, current_streaming_message,
                 current_streaming_blocks, current_usage, aliased>>

LoopGuardNeverExits(ec) == TRUE

\* while not self.eval_complete
LoopGuard(ec) == ~ec

CompletionTriggersHistoryOnly == {"agent_history_updated"}

\* if msg_type in ("agent_history_updated", "agent_stream_complete")
CompletionTriggers == {"agent_history_updated", "agent_stream_complete"}

\* one iteration of the wait loop that receives a frame
HRecvFrame ==
  /\ mode = "headless"
  /\ pc = "awaiting"
  /\ LoopGuard(eval_complete)
  /\ chan # <<>>
  /\ LET msg == Head(chan) IN
     /\ chan' = Tail(chan)
     /\ IF msg.well_formed THEN add_to_history(msg) ELSE UNCHANGED hvars
     /\ IF ~msg.well_formed
        THEN \* json.loads raises JSONDecodeError, which no except clause catches
             /\ pc' = "raised"
             /\ last' = LastFrame("not json", TRUE, FALSE)
             /\ UNCHANGED <<eval_complete, completions>>
        ELSE IF msg.type = "agent_error"
        THEN /\ pc' = "raised"
             /\ last' = LastFrame(msg.type, TRUE, FALSE)
             /\ UNCHANGED <<eval_complete, completions>>
        ELSE IF msg.type \in CompletionTriggers
        THEN /\ eval_complete' = check_for_completion(conversation_history')
             /\ completions' = IF eval_complete' THEN completions + 1 ELSE completions
             /\ last' = LastFrame(msg.type, TRUE, TRUE)
             /\ pc' = IF LoopGuard(eval_complete') THEN "awaiting" ELSE "finish"
        ELSE /\ last' = LastFrame(msg.type, TRUE, FALSE)
             /\ UNCHANGED <<eval_complete, completions, pc>>
  /\ UNCHANGED <<mode, lvars, gvars, rvars, svars, caseIdx, cur_grader, results, server_proc, websocket,
                 quota, outbox>>

\* the actions the stub responder answers
StubActions == {"get_context", "create_cell", "update_cell", "delete_cell", "run_cell"}

\* handle_agent_action(msg): the agent_action_response it sends. No code of
\* the package calls it; the wait loop of run_eval only records the frame
handle_agent_action(msg) ==
  [OutFrame("agent_action_response") EXCEPT
     !.tx_id = msg.tx_id,
     !.status = IF msg.action \in StubActions THEN "success" ELSE "error"]

\* asyncio.TimeoutError after 5 s without a frame
HTimeout ==
  /\ mode = "headless"
  /\ pc = "awaiting"
  /\ LoopGuard(eval_complete)
  /\ chan = <<>>
  /\ websocket = "open"
  /\ eval_complete' = check_for_completion(conversation_history)
  /\ completions' = IF eval_complete' THEN completions + 1 ELSE completions
  /\ pc' = IF LoopGuard(eval_complete') THEN "awaiting" ELSE "finish"
  /\ UNCHANGED <<mode, lvars, gvars, rvars, svars, caseIdx, cur_grader, results, server_proc, websocket, chan,
                 quota, outbox, hvars, last>>

\* websockets.exceptions.ConnectionClosed: break
HConnectionClosed ==
  /\ mode = "headless"
  /\ pc = "awaiting"
  /\ LoopGuard(eval_complete)
  /\ chan = <<>>
  /\ websocket = "closed"
  /\ pc' = "finish"
  /\ UNCHANGED <<mode, lvars, gvars, rvars, svars, caseIdx, cur_grader, results, server_proc, websocket, chan,
                 quota, outbox, eval_complete, hvars, completions, last>>

\* the EvalResult fields the batch reports on; grader_declared and
\* grader_invoked record the case's declaration and whether evaluate() ran
EvalResult(eval_id, answer, g) ==
  [eval_id |-> eval_id, agent_answer |-> answer, grader_result |-> g.grader_result,
   grader_invoked |-> g.invoked, grader_declared |-> cur_grader,
   completed |-> eval_complete]

\* run_eval after the wait loop, and results.append(result)
HFinishEval ==
  /\ mode = "headless"
  /\ pc = "finish"
  /\ LET agent_answer == extract_answer_from_conversation(conversation_history) IN
     results' = Append(results,
                  EvalResult(caseIdx, agent_answer, grade(cur_grader, agent_answer)))
  /\ pc' = "stop"
  /\ UNCHANGED <<mode, lvars, gvars, rvars, svars, caseIdx, cur_grader, server_proc, websocket, chan, quota,
                 outbox, eval_complete, hvars, completions, last>>

\* stop_server(), called inside the for loop of run_eval_batch_headless
stop_server ==
  /\ mode = "headless"
  /\ pc = "stop"
  /\ websocket' = None
  /\ chan' = <<>>
  /\ server_proc' = IF server_proc = "running" THEN "stopped" ELSE server_proc
  /\ caseIdx' = caseIdx + 1
  /\ pc' = NextPc(caseIdx + 1)
  /\ UNCHANGED <<mode, lvars, gvars, rvars, svars, cur_grader, results, quota, outbox, eval_complete, hvars,
                 completions, last>>

(* ------------------- the agent and the history store (server mode) ----- *)
\* the agent persists a record and announces it
AgentAppend ==
  /\ mode = "server"
  /\ server_proc = "running"
  /\ ~clear_pending
  /\ quota > 0
  /\ Len(chan) < MaxQueue
  /\ \E m \in ServerRecords : db' = Append(db, m)
  /\ chan' = Append(chan, Frame("agent_history_updated"))
  /\ quota' = quota - 1
  /\ UNCHANGED <<mode, lvars, gvars, rvars, clear_pending, fwd, rcv, exited_at, pc, caseIdx, cur_grader, results,
                 server_proc, websocket, outbox, eval_complete, hvars,
                 completions, last>>

\* the agent processes agent_clear_history: its records become removed
AgentClear ==
  /\ mode = "server"
  /\ server_proc = "running"
  /\ clear_pending
  /\ db' = <<>>
  /\ clear_pending' = FALSE
  /\ UNCHANGED <<mode, lvars, gvars, rvars, fwd, rcv, exited_at, pc, caseIdx, cur_grader, results, server_proc,
                 websocket, chan, quota, outbox, eval_complete, hvars,
                 completions, last>>

\* the observer's current connection closes
ConsoleClose ==
  /\ mode = "server"
  /\ websocket = "open"
  /\ pc \in {"polling"}
  /\ websocket' = "closed"
  /\ rcv_sock' = IF rcv_conn = conn THEN "closed" ELSE rcv_sock
  /\ UNCHANGED <<mode, lvars, gvars, svars, pc, caseIdx, cur_grader, results, server_proc, chan,
                 quota, outbox, eval_complete, hvars, completions, last,
                 conn, reconn, fwd_msg, rcv_conn, unsent, sent_in_order>>

\* connection_handler for a connection made after the agent was started:
\* server.websocket = websocket; the previous connection is closed or stays open
ConsoleReconnect ==
  /\ mode = "server"
  /\ pc = "polling"
  /\ server_proc # "none"
  /\ conn < MaxConns
  /\ conn' = conn + 1
  /\ websocket' = "open"
  /\ reconn' = TRUE
  /\ rcv_sock' \in (IF rcv_conn = conn /\ websocket = "open"
                    THEN {"open", "closed"} ELSE {rcv_sock})
  /\ UNCHANGED <<mode, lvars, gvars, svars, pc, caseIdx, cur_grader, results, server_proc, chan,
                 quota, outbox, eval_complete, hvars, completions, last,
                 fwd_msg, rcv_conn, unsent, sent_in_order>>

(* ------------------- console-attached batch: run_eval_batch ------------ *)
NextPcS(i) == IF i > NumCases THEN "stopping" ELSE "reset"

\* fetch_full_conversation_history(): the stored records, or [] on any error
FetchOutcomes == {db, <<>>}

\* connection_handler: start_agent() and initialize_agent_session()
SStart ==
  /\ mode = "server"
  /\ pc = "start"
  /\ websocket' = "open"
  /\ server_proc' = "running"
  /\ \/ /\ outbox' = Append(outbox, OutFrame("init"))
        /\ pc' = NextPcS(caseIdx)
     \/ /\ pc' = "aborted"
        /\ UNCHANGED outbox
  /\ UNCHANGED <<mode, lvars, gvars, rvars, svars, caseIdx, cur_grader, results, chan, quota,
                 eval_complete, hvars, completions, last>>

\* agent_conn.send on a channel whose peer has exited either raises or is lost
SendOutcomes == IF server_proc = "running" THEN {"sent"} ELSE {"raised", "lost"}

reset_for_next_test ==
  /\ mode = "server"
  /\ pc = "reset"
  /\ \E o \in SendOutcomes :
       IF o = "raised"
       THEN /\ pc' = "raised"
            /\ UNCHANGED <<outbox, clear_pending, eval_complete>>
       ELSE /\ outbox' = Append(outbox, OutFrame("agent_clear_history"))
            /\ clear_pending' = (o = "sent")
            /\ eval_complete' = FALSE
            /\ pc' = "run"
  /\ UNCHANGED <<mode, lvars, gvars, rvars, db, fwd, rcv, exited_at, caseIdx, cur_grader, results, server_proc,
                 websocket, chan, quota, hvars, completions, last>>

\* run_eval up to the dispatch of agent_query
SRunEval ==
  /\ mode = "server"
  /\ pc = "run"
  /\ eval_complete' = FALSE
  /\ \E g \in GraderKinds : cur_grader' = g
  /\ completions' = 0
  /\ last' = NoFrameYet
  /\ fwd' = "recv"
  /\ rcv' = "active"
  /\ fwd_msg' = None
  /\ rcv_conn' = conn
  /\ rcv_sock' = websocket
  /\ reconn' = FALSE
  /\ \E o \in SendOutcomes :
       IF websocket # "open" \/ o = "raised"
       THEN /\ pc' = "raised"
            /\ UNCHANGED <<outbox, quota>>
       ELSE /\ outbox' = Append(outbox, AgentQuery(caseIdx, ServerRequestId))
            /\ quota' = IF o = "sent" THEN MaxServerFrames ELSE quota
            /\ pc' = "polling"
  /\ UNCHANGED <<mode, lvars, gvars, db, clear_pending, exited_at, caseIdx, results, server_proc, websocket,
                 chan, hvars, conn, unsent, sent_in_order>>

\* handle_agent_message(msg)
HandledTypes == {"agent_history_updated"}

\* forward_agent_to_console: recv() and handle_agent_message()
FwdRecv ==
  /\ mode = "server"
  /\ fwd = "recv"
  /\ chan # <<>>
  /\ LET msg == Head(chan) IN
     /\ chan' = Tail(chan)
     /\ fwd' = "send"
     /\ fwd_msg' = msg.type
     /\ unsent' = Append(unsent, msg.type)
     /\ IF msg.type \in HandledTypes
        THEN /\ \E history \in FetchOutcomes :
                  eval_complete' = (eval_complete \/ check_for_completion(history))
             /\ last' = LastFrame(msg.type, pc = "polling", TRUE)
        ELSE /\ last' = LastFrame(msg.type, pc = "polling", FALSE)
             /\ UNCHANGED eval_complete
  /\ UNCHANGED <<mode, lvars, gvars, db, clear_pending, rcv, exited_at, pc, caseIdx, cur_grader, results,
                 server_proc, websocket, quota, outbox, hvars, completions,
                 conn, reconn, rcv_conn, rcv_sock, sent_in_order>>

\* forward_agent_to_console: websocket.send(); an exception ends the task
FwdSend ==
  /\ mode = "server"
  /\ fwd = "send"
  /\ fwd' = IF websocket = "open" THEN "recv" ELSE "done"
  /\ sent_in_order' = IF websocket = "open"
                   THEN sent_in_order /\ fwd_msg = Head(unsent)
                   ELSE sent_in_order
  /\ unsent' = IF websocket = "open" THEN Tail(unsent) ELSE unsent
  /\ fwd_msg' = None
  /\ UNCHANGED <<conn, reconn, rcv_conn, rcv_sock>>
  /\ UNCHANGED <<mode, lvars, gvars, db, clear_pending, rcv, exited_at, pc, caseIdx, cur_grader, results,
                 server_proc, websocket, chan, quota, outbox, eval_complete, hvars,
                 completions, last>>

\* forward_agent_to_console: recv() fails once the agent has exited
FwdClosed ==
  /\ mode = "server"
  /\ fwd = "recv"
  /\ chan = <<>>
  /\ server_proc = "exited"
  /\ fwd' = "done"
  /\ UNCHANGED <<mode, lvars, gvars, rvars, db, clear_pending, rcv, exited_at, pc, caseIdx, cur_grader, results,
                 server_proc, websocket, chan, quota, outbox, eval_complete, hvars,
                 completions, last>>

\* forward_console_to_agent ends when the console connection is closed
RcvEnd ==
  /\ mode = "server"
  /\ rcv = "active"
  /\ rcv_sock = "closed"
  /\ rcv' = "done"
  /\ UNCHANGED <<mode, lvars, gvars, rvars, db, clear_pending, fwd, exited_at, pc, caseIdx, cur_grader, results,
                 server_proc, websocket, chan, quota, outbox, eval_complete, hvars,
                 completions, last>>

\* one pass of the polling loop of run_eval
SPoll ==
  /\ mode = "server"
  /\ pc = "polling"
  /\ IF ~LoopGuard(eval_complete)
     THEN /\ pc' = "cancel"
          /\ completions' = completions + 1
     ELSE IF fwd = "done" \/ rcv = "done"
     THEN /\ pc' = "cancel"
          /\ UNCHANGED completions
     ELSE UNCHANGED <<pc, completions>>
  /\ UNCHANGED <<mode, lvars, gvars, rvars, svars, caseIdx, cur_grader, results, server_proc, websocket,
                 chan, quota, outbox, eval_complete, hvars, last>>

\* run_eval after the wait loop (both tasks cancelled, history fetched,
\* answer extracted and graded), and results.append(result)
SFinishEval ==
  /\ mode = "server"
  /\ pc = "cancel"
  /\ fwd' = "none"
  /\ rcv' = "none"
  /\ fwd_msg' = None
  /\ \E history \in FetchOutcomes :
       LET agent_answer == extract_answer_from_conversation(history) IN
       results' = Append(results,
                    EvalResult(caseIdx, agent_answer, grade(cur_grader, agent_answer)))
  /\ caseIdx' = caseIdx + 1
  /\ pc' = NextPcS(caseIdx + 1)
  /\ UNCHANGED <<mode, lvars, gvars, db, clear_pending, exited_at, cur_grader, server_proc, websocket, chan,
                 quota, outbox, eval_complete, hvars, completions, last,
                 conn, reconn, rcv_conn, rcv_sock, unsent, sent_in_order>>

\* stop_agent(), after the for loop of connection_handler; terminate() on a
\* process whose exit the transport has seen raises ProcessLookupError, which
\* stop_agent does not catch
stop_agent ==
  /\ mode = "server"
  /\ pc = "stopping"
  /\ server_proc' = IF server_proc = "running" THEN "stopped" ELSE server_proc
  /\ \/ pc' = "done" /\ chan' = <<>>
     \/ server_proc = "exited" /\ pc' = "raised" /\ UNCHANGED chan
  /\ UNCHANGED <<mode, lvars, gvars, rvars, svars, caseIdx, cur_grader, results, websocket, quota,
                 outbox, eval_complete, hvars, completions, last>>

HarnessStep ==
  \/ HStart \/ clear_agent_history \/ HRunEval \/ HRecvFrame \/ HTimeout
  \/ HConnectionClosed \/ HFinishEval \/ stop_server
  \/ SStart \/ reset_for_next_test \/ SRunEval \/ FwdRecv \/ FwdSend \/ FwdClosed
  \/ RcvEnd \/ SPoll \/ SFinishEval \/ stop_agent

EnvironmentStep ==
  \/ AgentEmit \/ AgentExit \/ AgentAppend \/ AgentClear
  \/ ConsoleClose \/ ConsoleReconnect

Next == EnvironmentStep \/ HarnessStep

Spec == Init /\ [][Next]_vars

FairSpec == Spec /\ WF_vars(HarnessStep)

(* ------------------- a console-attached batch whose agent answers -------- *)
(* ------------------- the first query with several notifications ---------- *)
\* the state of run_eval_batch right after the first case's agent_query was
\* dispatched (connection_handler, reset_for_next_test and run_eval up to the
\* wait loop have run, the agent has processed agent_clear_history)
InitOverlap ==
  /\ mode = "server"
  /\ db = <<>>
  /\ clear_pending = FALSE
  /\ fwd = "recv"
  /\ rcv = "active"
  /\ exited_at = None
  /\ pc = "polling"
  /\ caseIdx = 1
  /\ cur_grader \in GraderKinds
  /\ results = <<>>
  /\ server_proc = "running"
  /\ websocket = "open"
  /\ chan = <<>>
  /\ quota = MaxAnswerFrames
  /\ outbox = <<OutFrame("init"), OutFrame("agent_clear_history"),
                AgentQuery(1, ServerRequestId)>>
  /\ eval_complete = FALSE
  /\ conversation_history = <<>>
  /\ current_streaming_message = NoMessage
  /\ current_streaming_blocks = <<>>
  /\ trajectory = <<>>
  /\ turn_number = 0
  /\ current_usage = None
  /\ aliased = NoAlias
  /\ completions = 0
  /\ last = NoFrameYet
  /\ conn = 1
  /\ reconn = FALSE
  /\ fwd_msg = None
  /\ rcv_conn = 1
  /\ rcv_sock = "open"
  /\ unsent = <<>>
  /\ sent_in_order = TRUE
  /\ ProcessNotStarted
  /\ g_in = NoCall
  /\ g_out = NoCall

\* the observer stays connected and the agent stays alive, so a case's wait
\* loop ends only when its completion is detected
OverlapNext ==
  \/ AgentEmit \/ AgentAppend \/ AgentClear
  \/ reset_for_next_test \/ SRunEval \/ FwdRecv \/ FwdSend
  \/ SPoll \/ SFinishEval \/ stop_agent

OverlapSpec == InitOverlap /\ [][OverlapNext]_vars


(* ------------------- the headless wait loop on requests and bad frames -- *)
\* the agent asks the frontend for an action under a tx_id of its own
AgentRequest ==
  /\ mode = "headless"
  /\ pc = "awaiting"
  /\ server_proc = "running"
  /\ websocket = "open"
  /\ Len(requested) < MaxActions
  /\ Len(chan) < MaxQueue
  /\ \E action \in StubActions \cup {"unknown_action"} :
       LET msg == AgentAction(action, Len(requested) + 1) IN
       /\ chan' = Append(chan, msg)
       /\ requested' = Append(requested, msg)
  /\ UNCHANGED <<mode, gvars, rvars, svars, hvars, pc, caseIdx, cur_grader, results,
                 server_proc, websocket, quota, outbox, eval_complete, completions, last,
                 agent_ready, server_responded, polls, cooperative, proc_handle,
                 signals, interrupted, stream_log>>

\* a frame that is not valid JSON arrives on the socket
MalformedArrives ==
  /\ mode = "headless"
  /\ pc = "awaiting"
  /\ server_proc = "running"
  /\ websocket = "open"
  /\ Len(chan) < MaxQueue
  /\ \A k \in 1..Len(chan) : chan[k].well_formed
  /\ chan' = Append(chan, Malformed)
  /\ UNCHANGED <<mode, lvars, gvars, rvars, svars, hvars, pc, caseIdx, cur_grader, results,
                 server_proc, websocket, quota, outbox, eval_complete, completions, last>>

\* a case of a headless batch right after run_eval has sent its agent_query
InitWait ==
  /\ mode = "headless"
  /\ pc = "awaiting"
  /\ caseIdx = 1
  /\ cur_grader \in GraderKinds
  /\ results = <<>>
  /\ server_proc = "running"
  /\ websocket = "open"
  /\ chan = <<>>
  /\ quota = 0
  /\ outbox = << OutFrame("init"), OutFrame("agent_clear_history"),
                 AgentQuery(1, HeadlessRequestId(1)) >>
  /\ eval_complete = FALSE
  /\ conversation_history = <<>>
  /\ current_streaming_message = NoMessage
  /\ current_streaming_blocks = <<>>
  /\ trajectory = <<InitEntry(1)>>
  /\ turn_number = 0
  /\ current_usage = None
  /\ aliased = NoAlias
  /\ db = <<>>
  /\ clear_pending = FALSE
  /\ fwd = "none"
  /\ rcv = "none"
  /\ exited_at = None
  /\ completions = 0
  /\ last = NoFrameYet
  /\ conn = 1
  /\ reconn = FALSE
  /\ fwd_msg = None
  /\ rcv_conn = 1
  /\ rcv_sock = None
  /\ unsent = <<>>
  /\ sent_in_order = TRUE
  /\ ProcessNotStarted
  /\ g_in = NoCall
  /\ g_out = NoCall

WaitNext == AgentRequest \/ MalformedArrives \/ HRecvFrame \/ HTimeout

WaitSpec == InitWait /\ [][WaitNext]_vars

\* the wait loop keeps running: a frame on the socket is received
FairWaitSpec == WaitSpec /\ WF_vars(HRecvFrame)


(* ------------------- start-up, stop and interrupt of the agent process -- *)
\* the state no step of start-up, stop or interrupt touches
idle == <<hvars, svars, rvars, gvars, caseIdx, cur_grader, results, quota,
          eval_complete, completions, last, requested, stream_log>>

Headless == mode = "headless"

\* start_server (headless) / start_agent (console-attached) up to the wait for
\* the agent: the process is spawned and its handle stored
StartProcess ==
  /\ pc = "start"
  /\ server_proc' = "running"
  /\ proc_handle' = "set"
  /\ pc' = IF Headless THEN "wait_for_ready" ELSE "recv_ready"
  /\ UNCHANGED <<mode, cooperative, idle, websocket, chan, outbox, agent_ready, server_responded, polls, signals, interrupted>>

\* the agent reports ready: /readyz answers 200 (headless), a ready frame is
\* put on the private channel (console-attached)
AgentReports ==
  /\ server_proc = "running"
  /\ ~agent_ready
  /\ pc \in {"wait_for_ready", "recv_ready"}
  /\ agent_ready' = TRUE
  /\ chan' = IF Headless THEN chan ELSE Append(chan, Frame("ready"))
  /\ UNCHANGED <<mode, cooperative, idle, pc, server_proc, websocket, outbox, server_responded, polls, proc_handle, signals, interrupted>>

\* the agent's first frame on the private channel is not a ready frame
AgentSendsOther ==
  /\ ~Headless
  /\ server_proc = "running"
  /\ pc = "recv_ready"
  /\ ~agent_ready
  /\ chan = <<>>
  /\ chan' = <<Frame("agent_error")>>
  /\ UNCHANGED <<mode, cooperative, idle, pc, server_proc, websocket, outbox, agent_ready, server_responded, polls, proc_handle, signals, interrupted>>

\* the agent process exits on its own
ProcessExits ==
  /\ server_proc = "running"
  /\ pc \notin {"grace", "exit"}
  /\ server_proc' = "exited"
  /\ UNCHANGED <<mode, cooperative, idle, pc, websocket, chan, outbox, agent_ready, server_responded, polls, proc_handle, signals, interrupted>>

\* one iteration of the loop of wait_for_ready: 200 returns, 500 is noted,
\* an exited process raises RuntimeError
PollReady ==
  /\ Headless
  /\ pc = "wait_for_ready"
  /\ polls < MaxPolls
  /\ IF agent_ready /\ server_proc = "running"
     THEN /\ pc' = "connect"
          /\ UNCHANGED <<server_responded, polls>>
     ELSE \E resp \in (IF server_proc = "running" THEN {"500", "refused"} ELSE {"refused"}) :
            /\ server_responded' = (server_responded \/ resp = "500")
            /\ IF server_proc # "running"
               THEN pc' = "raised" /\ UNCHANGED polls
               ELSE polls' = polls + 1 /\ UNCHANGED pc
  /\ UNCHANGED <<mode, cooperative, idle, server_proc, websocket, chan, outbox, agent_ready, proc_handle, signals, interrupted>>

\* wait_for_ready after its loop: proceeds anyway if the server ever answered
\* 500, else raises TimeoutError
ReadyTimeout ==
  /\ Headless
  /\ pc = "wait_for_ready"
  /\ polls = MaxPolls
  /\ pc' = IF server_responded THEN "connect" ELSE "raised"
  /\ UNCHANGED <<mode, cooperative, idle, server_proc, websocket, chan, outbox, agent_ready, server_responded, polls, proc_handle, signals, interrupted>>

\* connect() up to the wait for agent_status: opens the socket and sends init
Connect ==
  /\ Headless
  /\ pc = "connect"
  /\ IF server_proc = "running"
     THEN /\ websocket' = "open"
          /\ outbox' = Append(outbox, OutFrame("init"))
          /\ pc' = "session_wait"
     ELSE /\ pc' = "raised"
          /\ UNCHANGED <<websocket, outbox>>
  /\ UNCHANGED <<mode, cooperative, idle, server_proc, chan, agent_ready, server_responded, polls, proc_handle, signals, interrupted>>

\* start_agent: msg = await self.agent_conn.recv(); any frame lets it return
RecvFirst ==
  /\ ~Headless
  /\ pc = "recv_ready"
  /\ chan # <<>>
  /\ chan' = Tail(chan)
  /\ pc' = "init"
  /\ UNCHANGED <<mode, cooperative, idle, server_proc, websocket, outbox, agent_ready, server_responded, polls, proc_handle, signals, interrupted>>

\* the same recv when the agent exited without sending a frame
RecvFirstFails ==
  /\ ~Headless
  /\ pc = "recv_ready"
  /\ chan = <<>>
  /\ server_proc = "exited"
  /\ pc' = "raised"
  /\ UNCHANGED <<mode, cooperative, idle, server_proc, websocket, chan, outbox, agent_ready, server_responded, polls, proc_handle, signals, interrupted>>

\* initialize_agent_session up to its wait: reads the console's init and
\* sends init to the agent; websocket.recv raises on a closed socket
InitSession ==
  /\ ~Headless
  /\ pc = "init"
  /\ IF websocket = "open"
     THEN /\ outbox' = Append(outbox, OutFrame("init"))
          /\ pc' = "session_wait"
     ELSE /\ pc' = "raised"
          /\ UNCHANGED outbox
  /\ UNCHANGED <<mode, cooperative, idle, server_proc, websocket, chan, agent_ready, server_responded, polls, proc_handle, signals, interrupted>>

\* the wait for agent_status ready ends, or the channel is lost
SessionReady ==
  /\ pc = "session_wait"
  /\ pc' = IF server_proc = "running" THEN "run" ELSE "raised"
  /\ UNCHANGED <<mode, cooperative, idle, server_proc, websocket, chan, outbox, agent_ready, server_responded, polls, proc_handle, signals, interrupted>>

\* run_eval up to its wait: the agent_query is sent; in console-attached mode
\* the reset_kernel_globals frame is first sent on the console socket
DispatchQuery ==
  /\ pc = "run"
  /\ IF Headless \/ websocket = "open"
     THEN /\ outbox' = Append(outbox, AgentQuery(1, IF Headless THEN HeadlessRequestId(1)
                                                     ELSE ServerRequestId))
          /\ pc' = "awaiting"
     ELSE /\ pc' = "raised"
          /\ UNCHANGED outbox
  /\ UNCHANGED <<mode, cooperative, idle, server_proc, websocket, chan, agent_ready, server_responded, polls, proc_handle, signals, interrupted>>

\* run_eval returns and the batch loop reaches stop_server / stop_agent
CaseEnds ==
  /\ pc = "awaiting"
  /\ pc' = "stop"
  /\ UNCHANGED <<mode, cooperative, idle, server_proc, websocket, chan, outbox, agent_ready, server_responded, polls, proc_handle, signals, interrupted>>

\* stop_server / stop_agent up to the grace wait: terminate() is sent to a
\* running process. stop_server first closes the socket and skips a process
\* that has exited; stop_agent calls terminate() on it, which raises
\* ProcessLookupError once the transport has seen the exit
StopRequest ==
  /\ pc = "stop"
  /\ websocket' = IF Headless THEN None ELSE websocket
  /\ IF server_proc = "running"
     THEN /\ signals' = Append(signals, "terminate")
          /\ pc' = "grace"
          /\ UNCHANGED proc_handle
     ELSE /\ UNCHANGED signals
          /\ \/ pc' = "returned" /\ proc_handle' = None
             \/ ~Headless /\ pc' = "raised" /\ UNCHANGED proc_handle
  /\ UNCHANGED <<mode, cooperative, idle, server_proc, chan, outbox, agent_ready, server_responded, polls, interrupted>>

\* a cooperative agent exits on the terminate request
TerminateHonoured ==
  /\ cooperative
  /\ server_proc = "running"
  /\ signals # <<>>
  /\ server_proc' = "exited"
  /\ UNCHANGED <<mode, cooperative, idle, pc, websocket, chan, outbox, agent_ready, server_responded, polls, proc_handle, signals, interrupted>>

\* wait_for(proc.wait(), timeout) returns: the process exited within the grace
\* period; the handles are cleared
GraceExited ==
  /\ pc = "grace"
  /\ server_proc # "running"
  /\ proc_handle' = None
  /\ pc' = "returned"
  /\ UNCHANGED <<mode, cooperative, idle, server_proc, websocket, chan, outbox, agent_ready, server_responded, polls, signals, interrupted>>

GraceTimeoutGivesUp ==
  /\ pc = "grace"
  /\ server_proc = "running"
  /\ proc_handle' = None
  /\ pc' = "returned"
  /\ UNCHANGED <<mode, cooperative, idle, server_proc, websocket, chan, outbox, agent_ready, server_responded, polls, signals, interrupted>>

\* TimeoutError after the grace period: kill() and wait(); the handles are
\* cleared
GraceTimeout ==
  /\ pc = "grace"
  /\ server_proc = "running"
  /\ signals' = Append(signals, "kill")
  /\ server_proc' = "killed"
  /\ proc_handle' = None
  /\ pc' = "returned"
  /\ UNCHANGED <<mode, cooperative, idle, websocket, chan, outbox, agent_ready, server_responded, polls, interrupted>>

\* the batch is interrupted while the agent process runs. Headless: the
\* CancelledError leaves run_eval_batch_headless, which has no finally, and the
\* program exits; the runtime may or may not kill the child while it tears
\* down. Console-attached: the websocket server closes the console socket and
\* waits for connection_handler, which goes on
Interrupt ==
  /\ ~interrupted
  /\ server_proc = "running"
  /\ pc \in {"wait_for_ready", "recv_ready", "session_wait", "awaiting"}
  /\ interrupted' = TRUE
  /\ IF Headless
     THEN /\ pc' = "exit"
          /\ server_proc' \in {"running", "killed"}
          /\ UNCHANGED websocket
     ELSE /\ websocket' = "closed"
          /\ UNCHANGED <<pc, server_proc>>
  /\ UNCHANGED <<mode, cooperative, idle, chan, outbox, agent_ready, server_responded, polls, proc_handle, signals>>

\* the batch function returns or an exception leaves it
ProgramExits ==
  /\ pc \in {"returned", "raised"}
  /\ pc' = "exit"
  /\ UNCHANGED <<mode, cooperative, idle, server_proc, websocket, chan, outbox, agent_ready, server_responded, polls, proc_handle, signals, interrupted>>

\* one case of a batch, before the agent process is started
InitLifecycle ==
  /\ mode \in {"headless", "server"}
  /\ pc = "start"
  /\ caseIdx = 1
  /\ cur_grader = "none"
  /\ results = <<>>
  /\ server_proc = "none"
  /\ websocket = IF Headless THEN None ELSE "open"
  /\ chan = <<>>
  /\ quota = 0
  /\ outbox = <<>>
  /\ eval_complete = FALSE
  /\ conversation_history = <<>>
  /\ current_streaming_message = NoMessage
  /\ current_streaming_blocks = <<>>
  /\ trajectory = <<>>
  /\ turn_number = 0
  /\ current_usage = None
  /\ aliased = NoAlias
  /\ db = <<>>
  /\ clear_pending = FALSE
  /\ fwd = "none"
  /\ rcv = "none"
  /\ exited_at = None
  /\ completions = 0
  /\ last = NoFrameYet
  /\ conn = 1
  /\ reconn = FALSE
  /\ fwd_msg = None
  /\ rcv_conn = 1
  /\ rcv_sock = None
  /\ unsent = <<>>
  /\ sent_in_order = TRUE
  /\ requested = <<>>
  /\ agent_ready = FALSE
  /\ server_responded = FALSE
  /\ polls = 0
  /\ cooperative \in BOOLEAN
  /\ proc_handle = None
  /\ signals = <<>>
  /\ interrupted = FALSE
  /\ stream_log = NoStreamLog
  /\ g_in = NoCall
  /\ g_out = NoCall

LifecycleNext ==
  \/ StartProcess \/ AgentReports \/ AgentSendsOther \/ ProcessExits
  \/ PollReady \/ ReadyTimeout \/ Connect \/ RecvFirst \/ RecvFirstFails
  \/ InitSession \/ SessionReady \/ DispatchQuery \/ CaseEnds
  \/ StopRequest \/ TerminateHonoured \/ GraceExited \/ GraceTimeout
  \/ Interrupt \/ ProgramExits

LifecycleSpec == InitLifecycle /\ [][LifecycleNext]_vars

(* ------------------- the completion predicate on arbitrary histories --- *)
TextBlock == NewBlock("text", None, None)
PredBlocks == {DoneBlock, WaitBlock, OtherToolBlock, TextBlock}
SeqsUpTo(S, n) == UNION { [1..k -> S] : k \in 0..n }
PredMessages ==
  { Msg(t, r, c) : t \in {"anthropic_message", "user_message"},
                   r \in {"assistant", "user"},
                   c \in SeqsUpTo(PredBlocks, MaxPredBlocks) }

InitPredicate ==
  /\ mode = "predicate"
  /\ pc = "start"
  /\ conversation_history \in SeqsUpTo(PredMessages, MaxPredHist)
  /\ caseIdx = 1
  /\ cur_grader = "none"
  /\ results = <<>>
  /\ server_proc = "none"
  /\ websocket = None
  /\ chan = <<>>
  /\ quota = 0
  /\ outbox = <<>>
  /\ eval_complete = FALSE
  /\ current_streaming_message = NoMessage
  /\ current_streaming_blocks = <<>>
  /\ trajectory = <<>>
  /\ turn_number = 0
  /\ current_usage = None
  /\ aliased = NoAlias
  /\ db = <<>>
  /\ clear_pending = FALSE
  /\ fwd = "none"
  /\ rcv = "none"
  /\ exited_at = None
  /\ completions = 0
  /\ last = NoFrameYet
  /\ conn = 1
  /\ reconn = FALSE
  /\ fwd_msg = None
  /\ rcv_conn = 1
  /\ rcv_sock = None
  /\ unsent = <<>>
  /\ sent_in_order = TRUE
  /\ ProcessNotStarted
  /\ g_in = NoCall
  /\ g_out = NoCall

ApplyCheck ==
  /\ mode = "predicate"
  /\ pc = "start"
  /\ eval_complete' = check_for_completion(conversation_history)
  /\ pc' = "done"
  /\ UNCHANGED <<mode, lvars, gvars, rvars, svars, hvars, caseIdx, cur_grader, results, server_proc,
                 websocket, chan, quota, outbox, completions, last>>

PredicateSpec == InitPredicate /\ [][ApplyCheck]_vars

(* ------------------- the recorder on arbitrary frame sequences --------- *)
RecorderFrames ==
  { Frame("agent_stream_start"), Frame("agent_stream_complete"),
    BlockStart("tool_use", "create_cell", "toolu_1"),
    BlockStart("tool_use", "submit_response", "toolu_2"),
    KernelMessage("cell_result", "cell_1", FALSE),
    KernelMessage("cell_result", "cell_1", TRUE) }

\* the state after init_trajectory() of the first case
InitRecorder ==
  /\ mode = "recorder"
  /\ pc = "awaiting"
  /\ quota = MaxRecFrames
  /\ conversation_history = <<>>
  /\ trajectory = <<InitEntry(1)>>
  /\ caseIdx = 1
  /\ cur_grader = "none"
  /\ results = <<>>
  /\ server_proc = "none"
  /\ websocket = None
  /\ chan = <<>>
  /\ outbox = <<>>
  /\ eval_complete = FALSE
  /\ current_streaming_message = NoMessage
  /\ current_streaming_blocks = <<>>
  /\ turn_number = 0
  /\ current_usage = None
  /\ aliased = NoAlias
  /\ db = <<>>
  /\ clear_pending = FALSE
  /\ fwd = "none"
  /\ rcv = "none"
  /\ exited_at = None
  /\ completions = 0
  /\ last = NoFrameYet
  /\ conn = 1
  /\ reconn = FALSE
  /\ fwd_msg = None
  /\ rcv_conn = 1
  /\ rcv_sock = None
  /\ unsent = <<>>
  /\ sent_in_order = TRUE
  /\ ProcessNotStarted
  /\ g_in = NoCall
  /\ g_out = NoCall

\* self.add_to_history(msg) for a received frame
RecAddToHistory ==
  /\ mode = "recorder"
  /\ quota > 0
  /\ \E msg \in RecorderFrames : add_to_history(msg)
  /\ quota' = quota - 1
  /\ UNCHANGED <<mode, lvars, gvars, rvars, svars, pc, caseIdx, cur_grader, results, server_proc,
                 websocket, chan, outbox, eval_complete, completions, last>>

\* the reset before the next case: clear_history() and init_trajectory()
RecNextCase ==
  /\ mode = "recorder"
  /\ caseIdx < NumCases
  /\ clear_history
  /\ init_trajectory(caseIdx + 1)
  /\ caseIdx' = caseIdx + 1
  /\ quota' = MaxRecFrames
  /\ UNCHANGED <<mode, lvars, gvars, rvars, svars, pc, cur_grader, results, server_proc,
                 websocket, chan, outbox, eval_complete, completions, last,
                 current_streaming_message, current_streaming_blocks, current_usage, aliased>>

RecorderSpec == InitRecorder /\ [][RecAddToHistory \/ RecNextCase]_vars

(* ------------------- graders: scores as exact fractions ---------------- *)
\* a float is modelled by the fraction n/d, d > 0; d = 0 is float('inf')
Rat(n, d) == [n |-> n, d |-> d]
RZero == Rat(0, 1)
ROne == Rat(1, 1)
RInf == Rat(1, 0)
RLe(a, b) == a.n * b.d <= b.n * a.d
RLt(a, b) == ~RLe(b, a)
REq(a, b) == RLe(a, b) /\ RLe(b, a)
RECURSIVE RGcd(_, _)
RGcd(a, b) == IF b = 0 THEN a ELSE RGcd(b, a % b)
\* the same fraction in lowest terms
RNorm(r) ==
  LET g == RGcd(IF r.n < 0 THEN -r.n ELSE r.n, r.d)
  IN IF g = 0 THEN r ELSE Rat(r.n \div g, r.d \div g)
RAdd(a, b) == RNorm(Rat(a.n * b.d + b.n * a.d, a.d * b.d))
RMul(a, b) == RNorm(Rat(a.n * b.n, a.d * b.d))
RDiv(a, b) == RNorm(Rat(a.n * b.d, a.d * b.n))

clamp_scoreUnclamped(score) == score

\* BinaryGrader.clamp_score: max(0.0, min(1.0, float(score)))
clamp_score(score) ==
  LET m == IF RLt(score, ROne) THEN score ELSE ROne
  IN IF RLt(RZero, m) THEN m ELSE RZero

score_with_toleranceNoPlateau(error, tolerance) ==
  IF RLe(error, RZero) THEN ROne
  ELSE IF RLt(RZero, tolerance) THEN RDiv(tolerance, error)
  ELSE RDiv(ROne, RAdd(ROne, error))

\* BinaryGrader.score_with_tolerance
score_with_tolerance(error, tolerance) ==
  IF RLe(error, RZero) THEN ROne
  ELSE IF RLt(RZero, tolerance)
       THEN IF RLe(error, tolerance) THEN ROne ELSE RDiv(tolerance, error)
       ELSE RDiv(ROne, RAdd(ROne, error))

\* the state of a harness that has not been started
Constructed ==
  /\ pc = "start"
  /\ db = <<>>
  /\ clear_pending = FALSE
  /\ fwd = "none"
  /\ rcv = "none"
  /\ exited_at = None
  /\ caseIdx = 1
  /\ cur_grader = "none"
  /\ results = <<>>
  /\ server_proc = "none"
  /\ websocket = None
  /\ chan = <<>>
  /\ quota = 0
  /\ outbox = <<>>
  /\ eval_complete = FALSE
  /\ conversation_history = <<>>
  /\ current_streaming_message = NoMessage
  /\ current_streaming_blocks = <<>>
  /\ trajectory = <<>>
  /\ turn_number = 0
  /\ current_usage = None
  /\ aliased = NoAlias
  /\ completions = 0
  /\ last = NoFrameYet
  /\ conn = 1
  /\ reconn = FALSE
  /\ fwd_msg = None
  /\ rcv_conn = 1
  /\ rcv_sock = None
  /\ unsent = <<>>
  /\ sent_in_order = TRUE
  /\ ProcessNotStarted

harness == <<svars, hvars, rvars, lvars, pc, caseIdx, cur_grader, results, server_proc,
             websocket, chan, quota, outbox, eval_complete, completions, last>>

\* non-negative errors and tolerances given to score_with_tolerance
ToleranceGrid == { Rat(n, d) : n \in 0..MaxNum, d \in 1..MaxDen }

\* two errors and one tolerance
InitTolerance ==
  /\ mode = "score_with_tolerance"
  /\ Constructed
  /\ g_in \in [error : ToleranceGrid, error2 : ToleranceGrid, tolerance : ToleranceGrid]
  /\ g_out = NoCall

ApplyScoreWithTolerance ==
  /\ mode = "score_with_tolerance"
  /\ g_out = NoCall
  /\ g_out' = [kind |-> "scores",
               score |-> score_with_tolerance(g_in.error, g_in.tolerance),
               score2 |-> score_with_tolerance(g_in.error2, g_in.tolerance)]
  /\ UNCHANGED <<mode, g_in, harness>>

ToleranceSpec == InitTolerance /\ [][ApplyScoreWithTolerance]_vars

(* ------------------- graders: answers and results ---------------------- *)
\* the value an answer holds for a field: a number, null, a string that is
\* not a number, or no entry at all
Num(i) == [kind |-> "num", v |-> i]
NullV == [kind |-> "null", v |-> 0]
TextV == [kind |-> "text", v |-> 0]
MissingV == [kind |-> "missing", v |-> 0]

\* GraderResult; raised = TRUE stands for an exception leaving evaluate().
\* parts are the per-field scores of the metrics, named the fields the
\* reasoning reports as missing, index the Jaccard index of the metrics, and
\* true_positives, false_positives, false_negatives its sorted label lists
GraderResult(passed, score, parts, named, index) ==
  [kind |-> "result", raised |-> FALSE, passed |-> passed, score |-> score,
   parts |-> parts, named |-> named, index |-> index,
   true_positives |-> <<>>, false_positives |-> <<>>, false_negatives |-> <<>>]
Raised ==
  [kind |-> "result", raised |-> TRUE, passed |-> FALSE, score |-> RZero,
   parts |-> <<>>, named |-> {}, index |-> RZero,
   true_positives |-> <<>>, false_positives |-> <<>>, false_negatives |-> <<>>]

RECURSIVE RSum(_)
RSum(scores) == IF scores = <<>> THEN RZero ELSE RAdd(Head(scores), RSum(Tail(scores)))

Abs(i) == IF i < 0 THEN -i ELSE i

(* ------------------- NumericToleranceGrader ---------------------------- *)
\* one entry of config["tolerances"]; asym: both "lower" and "upper" are given
Tol(type, value) ==
  [present |-> TRUE, type |-> type, value |-> value, asym |-> FALSE,
   lower |-> value, upper |-> value]
AsymTol(lower, upper) ==
  [present |-> TRUE, type |-> "absolute", value |-> 0, asym |-> TRUE,
   lower |-> lower, upper |-> upper]
NoTol == [Tol("absolute", 0) EXCEPT !.present = FALSE]

\* tolerances.get(field, {"type": "absolute", "value": 0}), replaced by the
\* tolerances dict itself when that dict is a single {"type", "value"} entry
tolerance_config(single, tol) ==
  IF single.present THEN single ELSE IF tol.present THEN tol ELSE Tol("absolute", 0)

\* one iteration of the loop over ground_truth.items()
FieldResult(within, score, missing) ==
  [within |-> within, score |-> score, missing |-> missing]

numeric_field(f, single) ==
  LET cfg == tolerance_config(single, f.tol)
      a == f.actual.v
      x == f.expected
      error == Rat(Abs(a - x), 1)
  IN
  IF f.actual.kind = "missing" THEN FieldResult(FALSE, RZero, TRUE)
  ELSE IF f.actual.kind \in {"text", "null"} THEN FieldResult(FALSE, RZero, FALSE)
  ELSE IF cfg.type = "absolute" /\ cfg.asym THEN
       FieldResult(x - cfg.lower <= a /\ a <= x + cfg.upper,
                   clamp_score(score_with_tolerance(error,
                      Rat(IF a >= x THEN cfg.upper ELSE cfg.lower, 1))),
                   FALSE)
  ELSE IF cfg.type = "absolute" THEN
       FieldResult(Abs(a - x) <= cfg.value,
                   clamp_score(score_with_tolerance(error, Rat(cfg.value, 1))), FALSE)
  ELSE IF cfg.type = "relative" THEN
       LET relative_error == IF x # 0 THEN Rat(Abs(a - x), Abs(x)) ELSE RInf IN
       FieldResult(RLe(relative_error, Rat(cfg.value, 1)),
                   clamp_score(score_with_tolerance(relative_error, Rat(cfg.value, 1))),
                   FALSE)
  ELSE IF cfg.type = "min" THEN
       FieldResult(a >= cfg.value,
                   IF cfg.value > 0 THEN clamp_score(clamp_score(Rat(a, cfg.value)))
                   ELSE IF a >= cfg.value THEN ROne ELSE RZero,
                   FALSE)
  ELSE IF cfg.type = "max" THEN
       FieldResult(a <= cfg.value,
                   IF cfg.value > 0
                   THEN IF a > 0 THEN clamp_score(clamp_score(Rat(cfg.value, a))) ELSE ROne
                   ELSE IF a <= cfg.value THEN ROne ELSE RZero,
                   FALSE)
  ELSE FieldResult(FALSE, clamp_score(RZero), FALSE)

sumOfScores(scores) == RSum(scores)

\* sum(field_scores) / len(field_scores) if field_scores else 0.0
mean(scores) ==
  IF scores # <<>> THEN RDiv(RSum(scores), Rat(Len(scores), 1)) ELSE RZero

\* NumericToleranceGrader.evaluate_answer; get_nested_value raises on an
\* answer that is not a dict
numeric_evaluate(in) ==
  IF in.shape # "dict" /\ in.fields # <<>> THEN Raised
  ELSE LET r == [i \in 1..Len(in.fields) |-> numeric_field(in.fields[i], in.single)]
           field_scores == [i \in 1..Len(r) |-> r[i].score]
       IN GraderResult(\A i \in 1..Len(r) : r[i].within,
                       clamp_score(mean(field_scores)),
                       field_scores,
                       { in.fields[i].field : i \in { k \in 1..Len(r) : r[k].missing } },
                       RZero)

NumericValues == {MissingV, NullV, TextV, Num(0), Num(5), Num(6), Num(8)}
FieldTols ==
  {NoTol} \cup { Tol(t, v) : t \in {"absolute", "relative", "min", "max", "percent"},
                             v \in {0, 1} }
          \cup { AsymTol(0, 2), AsymTol(2, 0) }
NumericField(name, tols) ==
  [field : {name}, expected : {0, 5}, tol : tols, actual : NumericValues]
NumericGroundTruths(tols) ==
  {<<>>} \cup { <<f>> : f \in NumericField("n_clusters", tols) }
         \cup { <<f, g>> : f \in NumericField("n_clusters", tols),
                           g \in NumericField("n_genes", tols) }
\* config and answer: per-field tolerances, or one {"type", "value"} entry
NumericInputs ==
  [kind : {"numeric_tolerance"}, shape : {"dict", "list"}, single : {NoTol},
   fields : NumericGroundTruths(FieldTols)]
  \cup
  [kind : {"numeric_tolerance"}, shape : {"dict"}, single : FieldTols \ {NoTol},
   fields : NumericGroundTruths({NoTol})]

(* ------------------- LabelSetJaccardGrader ----------------------------- *)
jaccard_indexOverPredicted(ground_truth_labels, predicted_labels) ==
  IF Cardinality(predicted_labels) > 0
  THEN Rat(Cardinality(ground_truth_labels \cap predicted_labels),
           Cardinality(predicted_labels))
  ELSE RZero

\* len(intersection) / len(union) if len(union) > 0 else 0.0
jaccard_index(ground_truth_labels, predicted_labels) ==
  IF Cardinality(ground_truth_labels \cup predicted_labels) > 0
  THEN Rat(Cardinality(ground_truth_labels \cap predicted_labels),
           Cardinality(ground_truth_labels \cup predicted_labels))
  ELSE RZero

\* the order sorted() gives the labels
LabelOrder == <<"A", "B", "C", "D">>

\* sorted(list(labels))
sorted(labels) == SelectSeq(LabelOrder, LAMBDA l : l \in labels)

false_positivesAllPredicted(ground_truth_labels, predicted_labels) == predicted_labels

\* false_positives = predicted_labels - ground_truth_labels
false_positives(ground_truth_labels, predicted_labels) ==
  predicted_labels \ ground_truth_labels

\* LabelSetJaccardGrader.evaluate_answer; the result's score is left at the
\* dataclass default 0.0; set() raises on a value that is not iterable
label_set_evaluate(in) ==
  IF in.shape # "dict" \/ ~in.predicted.present
  THEN GraderResult(FALSE, RZero, <<>>, {"cell_types_predicted"}, RZero)
  ELSE IF ~in.predicted.iterable THEN Raised
  ELSE LET index == jaccard_index(in.ground_truth_labels, in.predicted.labels)
       IN [GraderResult(RLe(in.pass_threshold, index), RZero, <<>>, {}, index) EXCEPT
             !.true_positives = sorted(in.ground_truth_labels \cap in.predicted.labels),
             !.false_positives = sorted(false_positives(in.ground_truth_labels,
                                                        in.predicted.labels)),
             !.false_negatives = sorted(in.ground_truth_labels \ in.predicted.labels)]

Labels == {"A", "B", "C", "D"}
PredictedLabels ==
  [present : {TRUE}, iterable : {TRUE}, labels : SUBSET Labels]
  \cup [present : {TRUE, FALSE}, iterable : {FALSE}, labels : {{}}]
LabelSetInputs ==
  [kind : {"label_set_jaccard"}, shape : {"dict", "list"},
   ground_truth_labels : SUBSET Labels, predicted : PredictedLabels,
   pass_threshold : {Rat(0, 1), Rat(1, 2), Rat(9, 10), Rat(1, 1)}]

(* ------------------- DistributionComparisonGrader ---------------------- *)
\* one iteration of the loop over gt_distribution.items()
distribution_component(cell_type, in) ==
  IF cell_type \notin DOMAIN in.agent_distribution.pct
  THEN FieldResult(FALSE, RZero, TRUE)
  ELSE LET diff == Rat(Abs(in.agent_distribution.pct[cell_type].v
                           - in.gt_distribution[cell_type]), 1)
       IN FieldResult(RLe(diff, Rat(in.pct_tolerance, 1)),
                      clamp_score(score_with_tolerance(diff, Rat(in.pct_tolerance, 1))),
                      FALSE)

\* the total_cells component, present when both totals are not None
total_cells_component(in) ==
  LET diff == Rat(Abs(in.agent_total_cells.v - in.gt_total_cells.v), 1)
  IN FieldResult(RLe(diff, Rat(in.total_cells_tolerance, 1)),
                 clamp_score(score_with_tolerance(diff, Rat(in.total_cells_tolerance, 1))),
                 FALSE)

extra_penaltyPerExtraType(expected_types, extra_count) ==
  IF expected_types > 0 THEN Rat(1, 1 + extra_count) ELSE RZero

\* expected_types / (expected_types + len(extra_types)) if expected_types > 0 else 0.0
extra_penalty(expected_types, extra_count) ==
  IF expected_types > 0 THEN Rat(expected_types, expected_types + extra_count)
  ELSE RZero

RECURSIVE SetToSeq(_)
SetToSeq(S) ==
  IF S = {} THEN <<>>
  ELSE LET x == CHOOSE y \in S : TRUE IN <<x>> \o SetToSeq(S \ {x})

\* DistributionComparisonGrader.evaluate_answer; arithmetic on a value that
\* is not a number and .keys() on a value that is not a dict raise
distribution_evaluate(in) ==
  IF in.shape # "dict" \/ ~in.agent_distribution.present
  THEN GraderResult(FALSE, RZero, <<>>, {"cell_type_distribution"}, RZero)
  ELSE LET has_total == in.gt_total_cells.kind # "null" /\ in.agent_total_cells.kind # "null"
           gt_types == SetToSeq(DOMAIN in.gt_distribution)
       IN
       IF has_total /\ in.agent_total_cells.kind # "num" THEN Raised
       ELSE IF ~in.agent_distribution.is_dict THEN Raised
       ELSE IF \E t \in DOMAIN in.gt_distribution \cap DOMAIN in.agent_distribution.pct :
                 in.agent_distribution.pct[t].kind # "num" THEN Raised
       ELSE
       LET total == IF has_total THEN <<total_cells_component(in)>> ELSE <<>>
           comps == total \o [i \in 1..Len(gt_types) |->
                                distribution_component(gt_types[i], in)]
           extra_types == DOMAIN in.agent_distribution.pct \ DOMAIN in.gt_distribution
           expected_types == Cardinality(DOMAIN in.gt_distribution)
           component_scores ==
             [i \in 1..Len(comps) |->
                IF extra_types # {}
                THEN RMul(comps[i].score,
                          extra_penalty(expected_types, Cardinality(extra_types)))
                ELSE comps[i].score]
       IN GraderResult(\A i \in 1..Len(comps) : comps[i].within,
                       clamp_score(mean(component_scores)),
                       component_scores,
                       { gt_types[i] : i \in { k \in 1..Len(gt_types) :
                                                 gt_types[k] \notin DOMAIN in.agent_distribution.pct } },
                       RZero)

GtDistributions ==
  { <<>>, [t \in {"T"} |-> 60], [t \in {"T", "B"} |-> IF t = "T" THEN 60 ELSE 40] }
PctValues == {Num(60), Num(40), Num(50), TextV}
AgentDistributions ==
  { [present |-> TRUE, is_dict |-> TRUE, pct |-> f] :
      f \in UNION { [D -> PctValues] : D \in SUBSET {"T", "B", "X"} } }
  \cup { [present |-> b, is_dict |-> FALSE, pct |-> <<>>] : b \in {TRUE, FALSE} }
DistributionInputs ==
  [kind : {"distribution_comparison"}, shape : {"dict", "list"},
   gt_total_cells : {NullV, Num(100)}, total_cells_tolerance : {0, 10},
   agent_total_cells : {NullV, TextV, Num(100), Num(120)},
   gt_distribution : GtDistributions, pct_tolerance : {0, 3},
   agent_distribution : AgentDistributions]

(* ------------------- SpatialAdjacencyGrader ---------------------------- *)
SpatialFields ==
  {"median_ic_to_pc_um", "p90_ic_to_pc_um", "pct_ic_within_15um",
   "pct_ic_mixed_within_55um", "adjacency_pass"}

\* scoring.pass_thresholds: the defaults, or every threshold configured as 0
SpatialThresholds ==
  { [max_median |-> 25, max_p90 |-> 80, min_15 |-> 60, min_55 |-> 60],
    [max_median |-> 0, max_p90 |-> 0, min_15 |-> 0, min_55 |-> 0] }

spatial_missing(in) ==
  IF in.shape # "dict" THEN SpatialFields
  ELSE { f \in SpatialFields : in.answer[f].kind = "missing" }

\* 1.0 if value <= maximum else clamp_score(maximum / value)
at_most_score(value, maximum) ==
  IF value <= maximum THEN ROne ELSE clamp_score(Rat(maximum, value))

at_least_scoreUnclamped(value, minimum) ==
  IF minimum > 0 THEN Rat(value, minimum)
  ELSE IF value >= minimum THEN ROne ELSE RZero

\* clamp_score(value / minimum) if minimum > 0 else (1.0 if passed else 0.0)
at_least_score(value, minimum) ==
  IF minimum > 0 THEN clamp_score(Rat(value, minimum))
  ELSE IF value >= minimum THEN ROne ELSE RZero

\* SpatialAdjacencyGrader.evaluate_answer; comparing a value that is not a
\* number with a threshold raises
spatial_evaluate(in) ==
  IF spatial_missing(in) # {}
  THEN GraderResult(FALSE, RZero, <<>>, spatial_missing(in), RZero)
  ELSE IF \E f \in SpatialFields \ {"adjacency_pass"} : in.answer[f].kind # "num"
  THEN Raised
  ELSE LET t == in.thresholds
           median == in.answer["median_ic_to_pc_um"].v
           p90 == in.answer["p90_ic_to_pc_um"].v
           pct15 == in.answer["pct_ic_within_15um"].v
           pct55 == in.answer["pct_ic_mixed_within_55um"].v
           adjacency_pass == in.answer["adjacency_pass"].v = 1
           scores == << at_most_score(median, t.max_median),
                        at_most_score(p90, t.max_p90),
                        at_least_score(pct15, t.min_15),
                        at_least_score(pct55, t.min_55),
                        IF adjacency_pass THEN ROne ELSE RZero >>
       IN GraderResult(/\ median <= t.max_median /\ p90 <= t.max_p90
                       /\ pct15 >= t.min_15 /\ pct55 >= t.min_55 /\ adjacency_pass,
                       clamp_score(RDiv(RSum(scores), Rat(5, 1))),
                       scores, {}, RZero)

\* adjacency_pass is a bool: Num(1) is True, Num(0) is False
SpatialAnswers ==
  { [f \in SpatialFields |->
       CASE f = "median_ic_to_pc_um" -> a
         [] f = "p90_ic_to_pc_um" -> b
         [] f = "pct_ic_within_15um" -> c
         [] f = "pct_ic_mixed_within_55um" -> d
         [] f = "adjacency_pass" -> e] :
      a \in {MissingV, TextV, Num(0), Num(20), Num(50)},
      b \in {MissingV, Num(0), Num(100)},
      c \in {MissingV, NullV, Num(0), Num(30), Num(90)},
      d \in {MissingV, Num(30), Num(90)},
      e \in {MissingV, Num(0), Num(1)} }
SpatialInputs ==
  [kind : {"spatial_adjacency"}, shape : {"dict", "list"},
   thresholds : SpatialThresholds, answer : SpatialAnswers]

(* ------------------- MultipleChoiceGrader ------------------------------ *)
strip_only(text) ==
  CASE text \in {"B"} -> "B"
    [] text \in {"b", " b "} -> "b"
    [] text \in {"A", "a", "C", "c"} -> text
    [] text \in {"", " "} -> ""

\* str(x).strip().upper() on the strings of the model
strip_upper(text) ==
  CASE text \in {"B", "b", " b "} -> "B"
    [] text \in {"A", "a"} -> "A"
    [] text \in {"C", "c"} -> "C"
    [] text \in {"", " "} -> ""

ChoiceTexts == {"B", "b", " b ", "A", "a", "C", "c", "", " "}

\* config["correct_answers"] when given, else [config.get("correct_answer", "")]
correct_answers(config) ==
  IF config.has_list THEN { strip_upper(a) : a \in config.correct_answers }
  ELSE { strip_upper(config.correct_answer) }

\* MultipleChoiceGrader.evaluate_answer
multiple_choice_evaluate(in) ==
  IF in.shape # "dict" \/ ~in.answer.present
  THEN GraderResult(FALSE, RZero, <<>>, {"answer"}, RZero)
  ELSE LET passed == strip_upper(in.answer.text) \in correct_answers(in.config)
       IN GraderResult(passed, IF passed THEN ROne ELSE RZero, <<>>, {}, RZero)

MultipleChoiceConfigs ==
  [has_list : {FALSE}, correct_answers : {{}}, correct_answer : {"B", " b ", "a", ""}]
  \cup [has_list : {TRUE}, correct_answers : {{"A", "b"}, {"c"}, {}}, correct_answer : {""}]
MultipleChoiceInputs ==
  [kind : {"multiple_choice"}, shape : {"dict", "list"}, config : MultipleChoiceConfigs,
   answer : [present : {TRUE}, text : ChoiceTexts] \cup [present : {FALSE}, text : {""}]]

(* ------------------- graders on arbitrary answers ----------------------- *)
\* GRADER_REGISTRY[kind]().evaluate(agent_answer, config)
evaluate(in) ==
  CASE in.kind = "numeric_tolerance" -> numeric_evaluate(in)
    [] in.kind = "label_set_jaccard" -> label_set_evaluate(in)
    [] in.kind = "distribution_comparison" -> distribution_evaluate(in)
    [] in.kind = "spatial_adjacency" -> spatial_evaluate(in)
    [] in.kind = "multiple_choice" -> multiple_choice_evaluate(in)

InitGrader ==
  /\ mode = "grader"
  /\ Constructed
  /\ \/ g_in \in NumericInputs
     \/ g_in \in LabelSetInputs
     \/ g_in \in DistributionInputs
     \/ g_in \in SpatialInputs
     \/ g_in \in MultipleChoiceInputs
  /\ g_out = NoCall

Evaluate ==
  /\ mode = "grader"
  /\ g_out = NoCall
  /\ g_out' = evaluate(g_in)
  /\ UNCHANGED <<mode, g_in, harness>>

GraderSpec == InitGrader /\ [][Evaluate]_vars

(* ------------------- write_results -------------------------------------- *)
\* one result handed to write_results: the fields of EvalResult it reads
WrittenResult(eval_id, duration_ms, agent_answer, grader_result) ==
  [eval_id |-> eval_id, duration_ms |-> duration_ms, agent_answer |-> agent_answer,
   grader_result |-> grader_result]

\* r.grader_result.get(key) if r.grader_result else None; a Python bool is
\* written "True" / "False" so that it can stand next to None
grader_field(r, key) ==
  IF ~r.grader_result.is_set THEN None
  ELSE IF key = "passed" THEN (IF r.grader_result.passed THEN "True" ELSE "False")
  ELSE r.grader_result.reasoning

\* the entry write_results builds for one result
summary_entry(r) ==
  [eval_id |-> r.eval_id, duration_ms |-> r.duration_ms,
   passed |-> grader_field(r, "passed"), reasoning |-> grader_field(r, "reasoning"),
   agent_answer |-> r.agent_answer]

passed_countNotFalse(evals) == Cardinality({i \in 1..Len(evals) : evals[i].passed # "False"})

\* passed = sum(1 for e in evals if e["passed"] is True)
passed_count(evals) == Cardinality({i \in 1..Len(evals) : evals[i].passed = "True"})

\* the summary write_results serialises to output_path
write_results(rs) ==
  LET evals == [i \in 1..Len(rs) |-> summary_entry(rs[i])]
      passed == passed_count(evals)
      total == Len(evals)
  IN [kind |-> "write_results",
      accuracy |-> IF total > 0 THEN RNorm(Rat(passed, total)) ELSE Rat(0, 1),
      passed |-> passed, total |-> total, evals |-> evals]

\* results a batch can hand over: graded and passed, graded and failed, not graded
WrittenResults ==
  { WrittenResult(id, d, a, g) :
      id \in {"case_a", "case_b"}, d \in {1000}, a \in {None, "answer"},
      g \in {NoGraderResult} \cup
            { GraderResultDict(p, None, "why", "answer") : p \in BOOLEAN } }

RECURSIVE ResultLists(_)
ResultLists(n) ==
  IF n = 0 THEN {<<>>}
  ELSE ResultLists(n - 1) \cup
       { Append(rs, r) : rs \in {x \in ResultLists(n - 1) : Len(x) = n - 1}, r \in WrittenResults }

InitResults ==
  /\ mode = "results"
  /\ Constructed
  /\ g_in \in { [kind |-> "write_results", results |-> rs] : rs \in ResultLists(MaxResults) }
  /\ g_out = NoCall

WriteResults ==
  /\ mode = "results"
  /\ g_out = NoCall
  /\ g_out' = write_results(g_in.results)
  /\ UNCHANGED <<mode, g_in, harness>>

ResultsSpec == InitResults /\ [][WriteResults]_vars

(* ------------------- the recorder on streamed messages ------------------ *)
StreamFrames ==
  { Frame("agent_stream_start"), Frame("agent_stream_complete"),
    BlockStart("text", None, None), BlockStart("thinking", None, None),
    BlockStart("tool_use", "submit_response", "toolu_2"),
    BlockStart("redacted_thinking", None, None), Frame("agent_usage_update") }
  \cup { Delta(i, c) : i \in 0..MaxBlocks, c \in {"par", FullChunk} }

\* a recorder that has handled no frame yet
InitStream ==
  /\ mode = "stream"
  /\ Constructed
  /\ g_in = NoCall
  /\ g_out = NoCall

\* ghost: the stream frames that built the accumulator list, and those that
\* built the last finalized message
LogStream(msg) ==
  IF msg.type = "agent_stream_start"
  THEN [stream_log EXCEPT !.open = <<>>]
  ELSE IF msg.type \in {"agent_stream_block_start", "agent_stream_delta"}
  THEN [stream_log EXCEPT !.open = Append(@, msg)]
  ELSE IF msg.type = "agent_stream_complete" /\ current_streaming_message # NoMessage
  THEN [open |-> <<>>, closed |-> stream_log.open,
        finalized |-> Len(conversation_history) + 1]
  ELSE stream_log

\* self.add_to_history(msg) for a received stream frame
StreamAddToHistory ==
  /\ mode = "stream"
  /\ quota < MaxRecFrames
  /\ \E msg \in StreamFrames :
       /\ add_to_history(msg)
       /\ stream_log' = LogStream(msg)
       /\ last' = LastFrame(msg.type, TRUE, FALSE)
  /\ quota' = quota + 1
  /\ UNCHANGED <<mode, gvars, rvars, svars, pc, caseIdx, cur_grader, results, server_proc,
                 websocket, chan, outbox, eval_complete, completions,
                 requested, agent_ready, server_responded, polls, cooperative,
                 proc_handle, signals, interrupted>>

StreamSpec == InitStream /\ [][StreamAddToHistory]_vars

(* ======================= claims ======================================== *)
ResultsFor(i) == { k \in 1..Len(results) : results[k].eval_id = i }

\* C1: within one case completion is detected at most once, and the case is
\* extracted and graded into at most one result, however many
\* agent_history_updated / agent_stream_complete notifications follow the
\* terminal submit_response.
C1_CompletionFiresOnce ==
  /\ completions <= 1
  /\ \A i \in 1..NumCases : Cardinality(ResultsFor(i)) <= 1

\* a case has completed while further notifications are still on the channel
C1_Witness ==
  /\ mode = "headless"
  /\ completions = 1
  /\ pc = "finish"
  /\ Len(chan) = 2
  /\ \A k \in 1..2 : chan[k].type \in {"agent_history_updated", "agent_stream_complete"}

TerminalBlock(b) ==
  b.type = "tool_use" /\ b.name = "submit_response" /\ b.input.next_status = "done"

HasTerminalSubmit(history) ==
  \E i \in 1..Len(history) :
    /\ history[i].type = "anthropic_message"
    /\ history[i].role = "assistant"
    /\ \E j \in 1..Len(history[i].content) : TerminalBlock(history[i].content[j])

\* C2: check_for_completion is true exactly when the scanned history holds an
\* assistant-authored anthropic_message with a tool_use block named
\* submit_response whose input has next_status = "done".
C2_PredicateIffTerminalSubmit ==
  (mode = "predicate" /\ pc = "done") =>
     (eval_complete <=> HasTerminalSubmit(conversation_history))

\* a history whose only terminal block sits in a user-authored message
C2_Witness ==
  /\ mode = "predicate"
  /\ pc = "done"
  /\ ~eval_complete
  /\ \E i \in 1..Len(conversation_history) :
       /\ conversation_history[i].role = "user"
       /\ \E j \in 1..Len(conversation_history[i].content) :
            TerminalBlock(conversation_history[i].content[j])

\* C3 (as stated): every agent_history_updated and every agent_stream_complete
\* frame received while a case awaits completion re-evaluates the predicate,
\* in both servers.
C3_EveryNotificationRechecks ==
  (last.awaiting /\ last.type \in {"agent_history_updated", "agent_stream_complete"})
     => last.checked

\* C3 (amended): agent_history_updated re-evaluates the predicate in both
\* servers; agent_stream_complete does so in the headless server only.
C3_RecheckOnHandledNotifications ==
  /\ (last.awaiting /\ last.type = "agent_history_updated") => last.checked
  /\ (last.awaiting /\ last.type = "agent_stream_complete")
        => (last.checked <=> mode = "headless")

\* a headless case has just re-evaluated the predicate on agent_stream_complete
C3_Witness ==
  /\ mode = "headless"
  /\ last.awaiting
  /\ last.type = "agent_stream_complete"
  /\ last.checked

\* C4: a case that awaits completion eventually stops awaiting (bounded wait),
\* even if the agent never produces the terminal submit_response.
C4_WaitIsBounded ==
  (pc \in {"awaiting", "polling"}) ~> (pc \notin {"awaiting", "polling"})

BatchEnded == pc \in {"done", "raised"}

\* C5: a batch whose agent started returns exactly one result per requested
\* case, in request order.
C5_OneResultPerCase ==
  BatchEnded =>
    /\ pc = "done"
    /\ Len(results) = NumCases
    /\ \A i \in 1..NumCases : results[i].eval_id = i

\* C6: an agent_error frame received while a case awaits completion does not
\* propagate out of the batch loop.
C6_CaseFailureContained ==
  (last.awaiting /\ last.type = "agent_error") => pc # "raised"

Dispatched(i) ==
  \E k \in 1..Len(outbox) : outbox[k].type = "agent_query" /\ outbox[k].query = i

CleanCaseState ==
  /\ conversation_history = <<>>
  /\ trajectory = <<InitEntry(caseIdx)>>
  /\ turn_number = 0
  /\ ~eval_complete
  /\ current_streaming_message = NoMessage
  /\ current_streaming_blocks = <<>>
  /\ current_usage = None
  /\ aliased = NoAlias

C8_AgentStoppedOnlyAfterLastCase ==
  server_proc = "stopped" => Len(results) = NumCases

ShortCircuitReasoning == "Failed to extract answer from conversation history"

NullAnswerGraded(r) == r.grader_declared # "none" /\ r.agent_answer = None

C10_RemainingCasesAfterAgentExit ==
  (BatchEnded /\ exited_at \in {"awaiting", "polling"}
     /\ ~(last.awaiting /\ last.type = "agent_error"))
    => (pc = "done" /\ Len(results) = NumCases)

\* C11: when the forwarding loops are cancelled, every frame that
\* forward_agent_to_console has received from the agent has been sent to the
\* observer (the observer's connection having stayed open throughout).
C11_ReceivedFramesForwardedAtCancel ==
  (mode = "server" /\ fwd = "none" /\ conn = 1 /\ websocket = "open")
     => unsent = <<>>

\* C12: in the agent-to-observer direction the frames sent to the observer
\* are a prefix of the frames received from the agent: every frame sent is the
\* oldest received frame not sent before it.
C12_RelayPreservesOrder == sent_in_order

\* C13: when the observer has reconnected during a case and the agent is
\* alive, the case leaves the wait loop only because completion was detected.
C13_ReconnectKeepsAwaiting ==
  (mode = "server" /\ pc = "cancel" /\ reconn /\ server_proc = "running")
     => eval_complete

ToolResultsFor(id) ==
  { k \in 1..Len(trajectory) :
      trajectory[k].type = "user" /\ trajectory[k].tool_use_id = id }

\* C14: in every reachable trajectory, each tool_use id has at most one
\* tool_result entry correlated with it.
C14_AtMostOneResultPerToolUse ==
  \A k \in 1..Len(trajectory) :
    trajectory[k].type = "user"
      => Cardinality(ToolResultsFor(trajectory[k].tool_use_id)) <= 1

IsAssistantEntry(e) == e.type = "assistant"

\* C15: the k-th assistant entry of the trajectory has turn k (so turns are
\* strictly increasing within a case), and the numbering restarts with each
\* case's init_trajectory().
C15_TurnsStrictlyIncreasing ==
  LET entries == SelectSeq(trajectory, IsAssistantEntry) IN
  /\ \A k \in 1..Len(entries) : entries[k].turn = k
  /\ turn_number = Len(entries)

\* the second case's trajectory has two finalized assistant messages
C15_Witness ==
  /\ mode = "recorder"
  /\ caseIdx = 2
  /\ Len(SelectSeq(trajectory, IsAssistantEntry)) = 2

ToleranceApplied == mode = "score_with_tolerance" /\ g_out # NoCall

\* C17: for tolerance v >= 0 and error e >= 0, score_with_tolerance(e, v) is
\* 1 when e <= v; for e > v it is v/e when v > 0 and 1/(1+e) when v = 0; it is
\* non-increasing in e and always within [0,1].
C17_ToleranceFalloff ==
  ToleranceApplied =>
    LET e == g_in.error
        e2 == g_in.error2
        v == g_in.tolerance
    IN /\ RLe(e, v) => REq(g_out.score, ROne)
       /\ (RLt(v, e) /\ RLt(RZero, v)) => REq(g_out.score, RDiv(v, e))
       /\ (RLt(v, e) /\ REq(v, RZero)) => REq(g_out.score, RDiv(ROne, RAdd(ROne, e)))
       /\ RLe(RZero, g_out.score) /\ RLe(g_out.score, ROne)
       /\ RLe(e, e2) => RLe(g_out.score2, g_out.score)

\* two errors beyond a positive tolerance, the larger one scoring strictly less
C17_Witness ==
  /\ ToleranceApplied
  /\ RLt(RZero, g_in.tolerance)
  /\ RLt(g_in.tolerance, g_in.error)
  /\ RLt(g_in.error, g_in.error2)
  /\ RLt(g_out.score2, g_out.score)
  /\ RLt(RZero, g_out.score2)

Graded(kind) == mode = "grader" /\ g_out # NoCall /\ g_in.kind = kind

\* a ground-truth field is within its tolerance
WithinTolerance(f, single) ==
  LET cfg == IF single.present THEN single ELSE IF f.tol.present THEN f.tol
             ELSE Tol("absolute", 0)
      a == f.actual.v
      x == f.expected
  IN /\ f.actual.kind = "num"
     /\ CASE cfg.type = "absolute" /\ cfg.asym -> x - cfg.lower <= a /\ a <= x + cfg.upper
          [] cfg.type = "absolute" /\ ~cfg.asym -> Abs(a - x) <= cfg.value
          [] cfg.type = "relative" -> x # 0 /\ Abs(a - x) <= cfg.value * Abs(x)
          [] cfg.type = "min" -> a >= cfg.value
          [] cfg.type = "max" -> a <= cfg.value
          [] OTHER -> FALSE

NClusters(actual, tol, single) ==
  [kind |-> "numeric_tolerance", shape |-> "dict", single |-> single,
   fields |-> <<[field |-> "n_clusters", expected |-> 5, tol |-> tol, actual |-> Num(actual)]>>]

\* C19: NumericToleranceGrader's overall score is the mean of the per-field
\* scores over the ground-truth fields and passed holds iff every
\* ground-truth field is within its tolerance; with ground truth
\* n_clusters = 5 and tolerance absolute 1, answer 6 passes with score 1 and
\* answer 8 fails with score 1/3.
C19_NumericMeanAndPass ==
  (Graded("numeric_tolerance") /\ ~g_out.raised) =>
    /\ Len(g_out.parts) = Len(g_in.fields)
    /\ g_in.fields # <<>> =>
          REq(g_out.score, RDiv(RSum(g_out.parts), Rat(Len(g_out.parts), 1)))
    /\ g_out.passed <=>
          \A i \in 1..Len(g_in.fields) : WithinTolerance(g_in.fields[i], g_in.single)
    /\ g_in \in {NClusters(6, NoTol, Tol("absolute", 1)), NClusters(6, Tol("absolute", 1), NoTol)}
          => (g_out.passed /\ REq(g_out.score, ROne))
    /\ g_in \in {NClusters(8, NoTol, Tol("absolute", 1)), NClusters(8, Tol("absolute", 1), NoTol)}
          => (~g_out.passed /\ REq(g_out.score, Rat(1, 3)))

\* the scenario's answer 8 has been graded
C19_Witness ==
  /\ Graded("numeric_tolerance")
  /\ g_in = NClusters(8, NoTol, Tol("absolute", 1))
  /\ ~g_out.passed

(* ------------------- C20 ------------------------------------------------ *)
\* the label-set grader compared two label sets
LabelSetsCompared ==
  /\ Graded("label_set_jaccard")
  /\ g_in.shape = "dict" /\ g_in.predicted.present /\ g_in.predicted.iterable

\* passed iff index >= threshold, and the {A,B,C} against {A,B} scenario
C20_PassedAndScenario ==
  /\ g_out.passed <=> RLe(g_in.pass_threshold, g_out.index)
  /\ ( /\ g_in.ground_truth_labels = {"A", "B", "C"}
       /\ g_in.predicted.labels = {"A", "B"}
       /\ g_in.pass_threshold = Rat(9, 10) )
     => (REq(g_out.index, Rat(2, 3)) /\ ~g_out.passed)

\* C20 as stated: for every label set S the Jaccard index of S against itself
\* is 1.0, for every two disjoint label sets it is 0.0, and passed is true iff
\* the index is at least the pass threshold (scenario: 2/3, not passed)
C20_JaccardEverySet ==
  LabelSetsCompared =>
    /\ g_in.ground_truth_labels = g_in.predicted.labels => REq(g_out.index, ROne)
    /\ g_in.ground_truth_labels \cap g_in.predicted.labels = {} => REq(g_out.index, RZero)
    /\ C20_PassedAndScenario

\* C20 amended: for every non-empty label set S the Jaccard index of S
\* against itself is 1.0, for every two disjoint label sets (two empty sets
\* included) it is 0.0, and passed is true iff the index is at least the pass
\* threshold (scenario: 2/3, not passed)
C20_JaccardNonEmptySet ==
  LabelSetsCompared =>
    /\ ( /\ g_in.ground_truth_labels = g_in.predicted.labels
         /\ g_in.ground_truth_labels # {} ) => REq(g_out.index, ROne)
    /\ g_in.ground_truth_labels \cap g_in.predicted.labels = {} => REq(g_out.index, RZero)
    /\ C20_PassedAndScenario

C20_Witness ==
  /\ LabelSetsCompared
  /\ g_in.ground_truth_labels = {"A", "B", "C"}
  /\ g_in.predicted.labels = {"A", "B"}
  /\ g_in.pass_threshold = Rat(9, 10)
  /\ REq(g_out.index, Rat(2, 3))
  /\ ~g_out.passed

(* ------------------- C16 ------------------------------------------------ *)
RegisteredGraders ==
  {"numeric_tolerance", "label_set_jaccard", "distribution_comparison",
   "spatial_adjacency", "multiple_choice"}

\* evaluate returned a GraderResult
Returned == mode = "grader" /\ g_out # NoCall /\ ~g_out.raised

\* C16: every GraderResult returned by evaluate of a registered grader
\* (numeric tolerance, label-set Jaccard, distribution comparison, spatial
\* adjacency, multiple choice) has a score in [0,1]
C16_ScoreInUnitInterval ==
  Returned =>
    /\ g_in.kind \in RegisteredGraders
    /\ RLe(RZero, g_out.score)
    /\ RLe(g_out.score, ROne)

\* a spatial answer whose percentage ratios exceed 1 before clamping
C16_Witness ==
  /\ Returned
  /\ g_in.kind = "spatial_adjacency"
  /\ g_in.thresholds.min_15 > 0
  /\ g_in.answer["pct_ic_within_15um"] = Num(90)
  /\ g_in.answer["pct_ic_mixed_within_55um"] = Num(90)
  /\ g_out.passed
  /\ REq(g_out.score, ROne)

(* ------------------- C18 ------------------------------------------------ *)
\* the fields the grader requires and the answer lacks
MissingRequired(in) ==
  CASE in.kind = "numeric_tolerance" ->
         { in.fields[i].field : i \in { k \in 1..Len(in.fields) :
             in.shape # "dict" \/ in.fields[k].actual.kind = "missing" } }
    [] in.kind = "label_set_jaccard" ->
         IF in.shape # "dict" \/ ~in.predicted.present
         THEN {"cell_types_predicted"} ELSE {}
    [] in.kind = "distribution_comparison" ->
         IF in.shape # "dict" \/ ~in.agent_distribution.present
         THEN {"cell_type_distribution"} ELSE {}
    [] in.kind = "spatial_adjacency" -> spatial_missing(in)
    [] in.kind = "multiple_choice" ->
         IF in.shape # "dict" \/ ~in.answer.present THEN {"answer"} ELSE {}

\* C18: for every grader, an answer lacking a required field yields
\* passed=false and score=0 with a reasoning naming the missing field, and
\* evaluate never raises for any answer
C18_MissingFieldFailsWithoutRaising ==
  (mode = "grader" /\ g_out # NoCall) =>
    /\ ~g_out.raised
    /\ MissingRequired(g_in) # {} =>
         /\ ~g_out.passed
         /\ REq(g_out.score, RZero)
         /\ MissingRequired(g_in) \subseteq g_out.named

(* ------------------- C21 ------------------------------------------------ *)
\* the distribution grader compared an answer's distribution
DistributionCompared ==
  /\ Graded("distribution_comparison")
  /\ ~g_out.raised
  /\ g_in.shape = "dict" /\ g_in.agent_distribution.present

ExtraCategories(in) ==
  DOMAIN in.agent_distribution.pct \ DOMAIN in.gt_distribution

\* the per-field scores before any penalty: total_cells when both totals are
\* given, then one score per ground-truth category
UnpenalizedScores(in) ==
  LET types == SetToSeq(DOMAIN in.gt_distribution)
      total == IF in.gt_total_cells.kind # "null" /\ in.agent_total_cells.kind # "null"
               THEN <<total_cells_component(in).score>> ELSE <<>>
  IN total \o [i \in 1..Len(types) |-> distribution_component(types[i], in).score]

\* C21: with k >= 1 extra categories every per-field score is multiplied by
\* expected_count/(expected_count+k) before averaging, with none the scores
\* are unchanged, and the overall score is the mean of the per-field scores
C21_SharedExtraPenalty ==
  DistributionCompared =>
    LET raw == UnpenalizedScores(g_in)
        k == Cardinality(ExtraCategories(g_in))
        expected_count == Cardinality(DOMAIN g_in.gt_distribution)
    IN /\ Len(g_out.parts) = Len(raw)
       /\ \A i \in 1..Len(raw) :
            IF k >= 1
            THEN REq(g_out.parts[i], RMul(raw[i], Rat(expected_count, expected_count + k)))
            ELSE REq(g_out.parts[i], raw[i])
       /\ Len(raw) > 0 =>
            REq(g_out.score, RDiv(RSum(g_out.parts), Rat(Len(raw), 1)))

\* two expected categories, both exact, one extra category: factor 2/3
C21_Witness ==
  /\ DistributionCompared
  /\ DOMAIN g_in.gt_distribution = {"T", "B"}
  /\ DOMAIN g_in.agent_distribution.pct = {"T", "B", "X"}
  /\ g_in.agent_distribution.pct["T"] = Num(60)
  /\ g_in.agent_distribution.pct["B"] = Num(40)
  /\ g_in.gt_total_cells = NullV
  /\ REq(g_out.score, Rat(2, 3))

(* ------------------- C22 ------------------------------------------------ *)
\* strings that are equal after trimming whitespace and ignoring case
ChoiceClasses == { {"B", "b", " b "}, {"A", "a"}, {"C", "c"}, {"", " "} }
SameChoice(a, b) == \E c \in ChoiceClasses : a \in c /\ b \in c

AcceptedAnswers(config) ==
  IF config.has_list THEN config.correct_answers ELSE {config.correct_answer}

\* C22: a multiple-choice answer passes iff, trimmed and case-folded, it
\* equals one of the accepted answers normalised the same way; the score is
\* 1.0 when passed and 0.0 otherwise
C22_ChoiceMatchesIgnoringCaseAndSpace ==
  (Graded("multiple_choice") /\ g_in.shape = "dict" /\ g_in.answer.present) =>
    /\ ~g_out.raised
    /\ g_out.passed <=>
         \E a \in AcceptedAnswers(g_in.config) : SameChoice(g_in.answer.text, a)
    /\ REq(g_out.score, IF g_out.passed THEN ROne ELSE RZero)

\* accepted {B}, answer "b"
C22_Witness ==
  /\ Graded("multiple_choice")
  /\ g_in.shape = "dict"
  /\ ~g_in.config.has_list /\ g_in.config.correct_answer = "B"
  /\ g_in.answer.present /\ g_in.answer.text = "b"
  /\ g_out.passed
  /\ REq(g_out.score, ROne)

(* ------------------- C23 ------------------------------------------------ *)
\* the spatial grader scored an answer having all five fields
SpatialScored == Graded("spatial_adjacency") /\ ~g_out.raised /\ spatial_missing(g_in) = {}

\* the five sub-checks, in the order of the sub-scores
SubChecks(in) ==
  << in.answer["median_ic_to_pc_um"].v <= in.thresholds.max_median,
     in.answer["p90_ic_to_pc_um"].v <= in.thresholds.max_p90,
     in.answer["pct_ic_within_15um"].v >= in.thresholds.min_15,
     in.answer["pct_ic_mixed_within_55um"].v >= in.thresholds.min_55,
     in.answer["adjacency_pass"] = Num(1) >>

\* C23: passed iff all five sub-checks pass; the overall score is the mean
\* of the five sub-scores; a sub-score is 1.0 when its sub-check passes
C23_FiveSubChecks ==
  SpatialScored =>
    /\ Len(g_out.parts) = 5
    /\ g_out.passed <=> \A i \in 1..5 : SubChecks(g_in)[i]
    /\ REq(g_out.score, RDiv(RSum(g_out.parts), Rat(5, 1)))
    /\ \A i \in 1..5 : SubChecks(g_in)[i] => REq(g_out.parts[i], ROne)

\* four sub-checks pass, one percentage is below its minimum
C23_Witness ==
  /\ SpatialScored
  /\ g_in.thresholds.min_15 > 0
  /\ g_in.answer["pct_ic_within_15um"] = Num(30)
  /\ g_in.answer["pct_ic_mixed_within_55um"] = Num(90)
  /\ g_in.answer["median_ic_to_pc_um"] = Num(20)
  /\ g_in.answer["p90_ic_to_pc_um"] = Num(0)
  /\ g_in.answer["adjacency_pass"] = Num(1)
  /\ ~g_out.passed
  /\ REq(g_out.score, Rat(9, 10))

(* ------------------- C24 ------------------------------------------------ *)
\* the case declared a grader kind outside the registry and an answer was
\* extracted
UnknownKindWithAnswer(r) ==
  r.grader_declared = "unknown_kind" /\ r.agent_answer # None

\* C24: a case whose declared grader kind is not in the registry, and whose
\* answer was extracted, gets a result (run_eval returned) for which no
\* grader was invoked and whose grader_result is unset
C24_UnknownKindLeavesResultUnset ==
  \A k \in 1..Len(results) :
    UnknownKindWithAnswer(results[k]) =>
      /\ ~results[k].grader_invoked
      /\ ~results[k].grader_result.is_set

C24_Witness ==
  \E k \in 1..Len(results) :
    /\ UnknownKindWithAnswer(results[k])
    /\ results[k].completed
    /\ ~results[k].grader_result.is_set

(* ------------------- C30 ------------------------------------------------ *)
QueriesSent == { k \in 1..Len(outbox) : outbox[k].type = "agent_query" }

\* C30: every agent_query dispatched by run_eval carries a request id that
\* differs from the request id of every other query dispatched in the batch
C30_RequestIdsUnique ==
  \A j, k \in QueriesSent : j # k => outbox[j].request_id # outbox[k].request_id

(* ------------------- C28 ------------------------------------------------ *)
\* the request with this tx_id asks for a stubbed action and has arrived:
\* the agent sent it and run_eval has taken it off the socket
Arrived(tx) ==
  /\ tx <= Len(requested)
  /\ requested[tx].action \in StubActions
  /\ \A k \in 1..Len(chan) : chan[k] # requested[tx]

\* exactly one agent_action_response with this tx_id, and status success
AnsweredOnce(tx) ==
  /\ Cardinality({ k \in 1..Len(outbox) :
        outbox[k].type = "agent_action_response" /\ outbox[k].tx_id = tx }) = 1
  /\ \A k \in 1..Len(outbox) :
        (outbox[k].type = "agent_action_response" /\ outbox[k].tx_id = tx)
          => outbox[k].status = "success"

\* C28: in headless mode every agent_action request of kind get_context,
\* create_cell, update_cell, delete_cell or run_cell that arrives during a
\* case is eventually answered by exactly one agent_action_response that
\* echoes its tx_id and has status success
C28_StubAnswersEveryRequest ==
  \A tx \in 1..MaxActions : Arrived(tx) ~> AnsweredOnce(tx)

(* ------------------- C29 ------------------------------------------------ *)
\* C29: a frame that is not valid JSON, received while a case awaits
\* completion, is dropped without ending the case: run_eval keeps waiting
C29_MalformedFrameDropped ==
  (last.awaiting /\ last.type = "not json") => pc = "awaiting"

(* ------------------- C25 ------------------------------------------------ *)
\* start-up has returned successfully
StartedUp == pc \in {"connect", "init", "session_wait", "run", "awaiting", "stop"}

\* C25: start-up succeeds only if the agent reported ready, so no init and no
\* agent_query is sent to an agent that has not reported ready
C25_NothingSentBeforeReady ==
  /\ StartedUp => agent_ready
  /\ (\E k \in 1..Len(outbox) : outbox[k].type \in {"init", "agent_query"}) => agent_ready

(* ------------------- C26 ------------------------------------------------ *)
\* C26: stop_agent / stop_server asks for termination first and kills only a
\* process that outlived the grace period; when it returns the process has
\* exited and the process and channel handles are cleared
C26_StopEscalatesAndClears ==
  /\ signals \in {<<>>, <<"terminate">>, <<"terminate", "kill">>}
  /\ (signals = <<"terminate", "kill">>) => server_proc = "killed"
  /\ pc = "returned" =>
       /\ server_proc \in {"exited", "killed"}
       /\ proc_handle = None
       /\ Headless => websocket = None

\* an agent that ignores the terminate request has been killed
C26_Witness ==
  /\ pc = "returned"
  /\ ~cooperative
  /\ signals = <<"terminate", "kill">>
  /\ server_proc = "killed"
  /\ proc_handle = None

(* ------------------- C27 ------------------------------------------------ *)
\* C27: when the batch is interrupted while the agent process runs, the
\* graceful stop is still executed before the program exits and no agent
\* process is left running
C27_InterruptStillStopsAgent ==
  (pc = "exit" /\ interrupted) =>
    /\ signals # <<>>
    /\ server_proc # "running"

(* ------------------- C31 ------------------------------------------------ *)
Written == g_out # NoCall /\ g_out.kind = "write_results"

\* C31: the batch summary has one entry per result in result order, total is
\* the number of results, passed the number of results whose grader result
\* has passed = true, accuracy is passed / total (0 for no results), and
\* 0 <= passed <= total
C31_SummaryCountsResults ==
  Written =>
    LET rs == g_in.results
        graded_passed == {i \in 1..Len(rs) : rs[i].grader_result.is_set
                                              /\ rs[i].grader_result.passed}
    IN /\ Len(g_out.evals) = Len(rs)
       /\ \A i \in 1..Len(rs) :
            /\ g_out.evals[i].eval_id = rs[i].eval_id
            /\ g_out.evals[i].duration_ms = rs[i].duration_ms
            /\ g_out.evals[i].agent_answer = rs[i].agent_answer
            /\ (g_out.evals[i].passed = "True") = (i \in graded_passed)
       /\ g_out.total = Len(rs)
       /\ g_out.passed = Cardinality(graded_passed)
       /\ g_out.passed >= 0 /\ g_out.passed <= g_out.total
       /\ IF g_out.total = 0 THEN g_out.accuracy = Rat(0, 1)
          ELSE g_out.accuracy.n * g_out.total = g_out.passed * g_out.accuracy.d

\* a summary of a passed, a failed and an ungraded result
C31_Witness ==
  /\ Written
  /\ g_out.total = 3
  /\ g_out.passed = 1
  /\ \E i \in 1..3 : ~g_in.results[i].grader_result.is_set
  /\ \E i \in 1..3 : g_out.evals[i].passed = "False"

(* ------------------- C32 ------------------------------------------------ *)
\* positions in a log of the block-start frames that open a recorded block
RecordedStarts(log) ==
  SelectSeq([i \in 1..Len(log) |-> i],
            LAMBDA i : /\ log[i].type = "agent_stream_block_start"
                       /\ log[i].block_type \in {"text", "thinking", "tool_use"})

\* the deltas addressed to the p-th block of a log after it was opened, in
\* arrival order
DeltasFor(log, p) ==
  LET at == SelectSeq([i \in 1..Len(log) |-> i],
                      LAMBDA i : /\ i > RecordedStarts(log)[p]
                                 /\ log[i].type = "agent_stream_delta"
                                 /\ log[i].block_index = p - 1)
  IN [j \in 1..Len(at) |-> log[at[j]].delta]

\* C32: every block is built from exactly the deltas addressed to its index,
\* in arrival order: text and thinking blocks hold their concatenation; a
\* tool_use block keeps them as raw input, its structured input stays empty
\* until turn-complete and is then the JSON parse of the raw input, or the
\* empty object when the parse fails
C32_BlocksBuiltFromOwnDeltas ==
  /\ Len(current_streaming_blocks) = Len(RecordedStarts(stream_log.open))
  /\ \A p \in 1..Len(current_streaming_blocks) :
       LET block == current_streaming_blocks[p]
           deltas == DeltasFor(stream_log.open, p)
       IN /\ block.input = EmptyInput
          /\ IF block.type = "tool_use"
             THEN block.raw = deltas /\ block.text = <<>>
             ELSE block.text = deltas /\ block.raw = <<>>
  /\ stream_log.finalized \in 1..Len(conversation_history) =>
       LET content == conversation_history[stream_log.finalized].content IN
       /\ Len(content) = Len(RecordedStarts(stream_log.closed))
       /\ \A p \in 1..Len(content) :
            LET deltas == DeltasFor(stream_log.closed, p)
                parsed == json_loads(deltas)
            IN IF content[p].type = "tool_use"
               THEN /\ content[p].input = IF parsed.ok THEN parsed.value ELSE EmptyInput
                    /\ content[p].text = <<>>
               ELSE /\ content[p].text = deltas
                    /\ content[p].input = EmptyInput

\* a finalized message whose tool_use input was parsed from its deltas, next
\* to one in progress whose text block has received a delta
C32_Witness ==
  /\ stream_log.finalized = 1
  /\ Len(conversation_history) = 1
  /\ conversation_history[1].content # <<>>
  /\ conversation_history[1].content[1].type = "tool_use"
  /\ conversation_history[1].content[1].input.next_status = "done"

(* ------------------- C33 ------------------------------------------------ *)
\* C33: a message finalized by turn-complete, and its trajectory entry, are
\* the same after every later stream signal
C33_FinalizedMessagesImmutable ==
  [][ /\ \A i \in 1..Len(conversation_history) :
           /\ i <= Len(conversation_history')
           /\ conversation_history'[i] = conversation_history[i]
      /\ \A j \in 1..Len(trajectory) :
           /\ j <= Len(trajectory')
           /\ trajectory'[j] = trajectory[j] ]_vars

\* after a message with a block was finalized, the accumulator has received
\* another block and a delta
C33_Witness ==
  /\ stream_log.finalized = 1
  /\ conversation_history[1].content # <<>>
  /\ trajectory[1].content = conversation_history[1].content
  /\ \E k \in 1..Len(stream_log.open) : stream_log.open[k].type = "agent_stream_delta"
  /\ current_streaming_blocks # <<>>

(* ------------------- C34 ------------------------------------------------ *)
\* the trajectory entry j holds a create_cell tool_use with this id
CreatesCell(j, id) ==
  /\ trajectory[j].type = "assistant"
  /\ \E b \in 1..Len(trajectory[j].content) :
        /\ trajectory[j].content[b].type = "tool_use"
        /\ trajectory[j].content[b].name = "create_cell"
        /\ trajectory[j].content[b].id = id

\* C34: every tool_result in the trajectory was attached to a create_cell
\* tool_use recorded before it that had no result at that time
C34_OutcomeResolvesUnresolvedCreateCell ==
  \A k \in 1..Len(trajectory) :
    trajectory[k].type = "user" =>
      /\ \E j \in 1..(k - 1) : CreatesCell(j, trajectory[k].tool_use_id)
      /\ ~\E r \in 1..(k - 1) :
             /\ trajectory[r].type = "user"
             /\ trajectory[r].tool_use_id = trajectory[k].tool_use_id

(* ------------------- C35 ------------------------------------------------ *)
\* this step takes the oldest frame off the agent channel inside the wait loop
FrameHandled == pc = "awaiting" /\ chan # <<>> /\ chan' = Tail(chan)

\* new is old with one entry added at its end
OneAppended(old, new) == Len(new) = Len(old) + 1 /\ SubSeq(new, 1, Len(old)) = old

\* C35: within a case the conversation history and the trajectory only grow,
\* by one entry at their end, in steps that handle a frame from the agent;
\* they are emptied only by the reset before a case (clear_history,
\* init_trajectory)
C35_HistoryAndTrajectoryAppendOnly ==
  [][ /\ \/ conversation_history' = conversation_history
         \/ /\ OneAppended(conversation_history, conversation_history')
            /\ FrameHandled
            /\ Head(chan).type \in {"anthropic_message", "user_message",
                                    "agent_stream_complete"}
         \/ pc = "clear" /\ conversation_history' = <<>>
      /\ \/ trajectory' = trajectory
         \/ /\ OneAppended(trajectory, trajectory')
            /\ FrameHandled
            /\ Head(chan).type \in {"agent_stream_complete", "kernel_message"}
         \/ pc = "run" /\ trajectory' = <<InitEntry(caseIdx)>> ]_vars

\* a case whose history holds two messages and whose trajectory two entries
C35_Witness ==
  /\ mode = "headless"
  /\ pc = "awaiting"
  /\ Len(conversation_history) = 2
  /\ conversation_history[1] # conversation_history[2]
  /\ Len(trajectory) = 2

(* ------------------- C36 ------------------------------------------------ *)
\* the message shell a turn-start opens
EmptyShell == Msg("anthropic_message", "assistant", <<>>)

\* C36: the recorder holds no message or one shell in progress; handling a
\* turn-start leaves a fresh shell with empty content and an empty block
\* list; a turn-complete handled while no message is in progress appends
\* nothing to the conversation or the trajectory
C36_OneMessageInProgress ==
  [][ /\ current_streaming_message' \in {NoMessage, EmptyShell}
      /\ last'.type = "agent_stream_start" =>
           /\ current_streaming_message' = EmptyShell
           /\ current_streaming_blocks' = <<>>
      /\ (last'.type = "agent_stream_complete" /\ current_streaming_message = NoMessage) =>
           /\ conversation_history' = conversation_history
           /\ trajectory' = trajectory ]_vars

\* a turn-complete was handled with blocks accumulated and no message in
\* progress
C36_Witness ==
  /\ mode = "stream"
  /\ last.type = "agent_stream_complete"
  /\ conversation_history = <<>>
  /\ trajectory = <<>>
  /\ current_streaming_blocks # <<>>

(* ------------------- C37 ------------------------------------------------ *)
\* a forwarding loop of run_eval is still running
LoopActive == fwd \in {"recv", "send"} \/ rcv = "active"

\* C37: the two forwarding loops are cancelled when the case completes or a
\* fatal error occurs: none is active once run_eval has returned or raised,
\* nor when the next case is about to create its own
C37_LoopsCancelledWithCase ==
  (mode = "server" /\ pc \in {"raised", "reset", "run", "stopping", "done"}) => ~LoopActive

(* ------------------- C38 ------------------------------------------------ *)
\* the run_cell request with this tx_id names a cell and has arrived
RunCellArrived(tx) == Arrived(tx) /\ requested[tx].action = "run_cell"
                                  /\ requested[tx].cell_id # None

\* positions in the outbox of the simulated cell_result frames
CellResults == { k \in 1..Len(outbox) : outbox[k].type = "kernel_message" }

\* C38: a run_cell request that names a cell is answered, and after the
\* answer exactly one simulated cell_result is sent
C38_ResponseThenOneCellResult ==
  \A tx \in 1..MaxActions :
    RunCellArrived(tx) ~>
      /\ Cardinality(CellResults) = 1
      /\ \E r \in 1..Len(outbox) :
           /\ outbox[r].type = "agent_action_response"
           /\ outbox[r].tx_id = tx
           /\ \A k \in CellResults : r < k

(* ------------------- C39 ------------------------------------------------ *)
\* the labels of a reported list
Listed(list) == { list[i] : i \in 1..Len(list) }

\* C39: the label-set grader reports true_positives = ground truth /\ predicted,
\* false_positives = predicted \ ground truth, false_negatives = ground truth
\* \ predicted; the three are pairwise disjoint, their union is ground truth
\* \/ predicted, and when they are not all empty the Jaccard index is
\* |true_positives| / (|true_positives| + |false_positives| + |false_negatives|)
C39_ConfusionSetsPartitionUnion ==
  (LabelSetsCompared /\ ~g_out.raised) =>
    LET gt == g_in.ground_truth_labels
        predicted == g_in.predicted.labels
        tp == Listed(g_out.true_positives)
        fp == Listed(g_out.false_positives)
        fn == Listed(g_out.false_negatives)
        total == Len(g_out.true_positives) + Len(g_out.false_positives)
                   + Len(g_out.false_negatives)
    IN /\ tp = gt \cap predicted
       /\ fp = predicted \ gt
       /\ fn = gt \ predicted
       /\ tp \cap fp = {} /\ tp \cap fn = {} /\ fp \cap fn = {}
       /\ tp \cup fp \cup fn = gt \cup predicted
       /\ Len(g_out.true_positives) = Cardinality(tp)
       /\ Len(g_out.false_positives) = Cardinality(fp)
       /\ Len(g_out.false_negatives) = Cardinality(fn)
       /\ total > 0 => g_out.index.n * total = Len(g_out.true_positives) * g_out.index.d

\* a comparison with a correct, a missing and an extra label
C39_Witness ==
  /\ LabelSetsCompared
  /\ ~g_out.raised
  /\ g_out.true_positives # <<>>
  /\ g_out.false_positives # <<>>
  /\ g_out.false_negatives # <<>>

\* C40: in a console-attached batch a case after the first has its completion
\* flag raised only by the agent's answer to that case's own query, so never
\* while the agent_clear_history sent before the query is still unprocessed
\* (the stored records are then all the previous case's).
C40_CompletionOnOwnAnswer ==
  (mode = "server" /\ caseIdx > 1 /\ pc = "polling" /\ eval_complete) => ~clear_pending

====
